---- MODULE Spec2Model ----
(***************************************************************************)
(* Model of the resumable parallel upload engine of coCLI                  *)
(* (package upload_utils, UploadManager).                                  *)
(*                                                                         *)
(* One run of UploadManager.Run is: the serial digest / URL phase          *)
(* (findAllUploadUrlsGeneric and the additional uploads), then the         *)
(* producer, scheduler and worker goroutines running concurrently while    *)
(* the caller blocks in uploadWg.Wait().  The checkpoint store and the     *)
(* server's file inventory outlive a run; a kill/restart starts the next   *)
(* run over the same files.                                                *)
(*                                                                         *)
(* Sizes are counted in MiB (1 GiB = 1024).                                *)
(***************************************************************************)
EXTENDS Integers, Sequences, FiniteSets, TLC

\* ---------------------------------------------------------------- bounds
MaxRuns == 2
MaxThreads == 2
MaxParts == 3
\* the long file list spans MaxBatches full URL batches and one more file
MaxBatches == 2
\* digest-phase faults (a failed CalSha256AndSize, a failed GetFile) per run
MaxDigestFaults == 2
\* a URL batch of more files than this gets the full map or the map lacking its first file
MaxPartialAnswer == 2

\* ---------------------------------------------------- program constants
defaultWindowSize == 1024
maxSinglePutObjectSize == 512000
processBatchSize == 20

\* ----------------------------------------------------------------- inputs
Files == {"A", "B"}
DiscoveryOrder == <<"A", "B">>
PartSizes == {768, 1024}
FileSizes == {512} \cup {768 * k : k \in 2..MaxParts}
\* file A takes every size, file B is a small file
SizeChoices == {s \in [Files -> FileSizes] : s["B"] = 512}
ThreadChoices == 1..MaxThreads
AdditionalChoices == {{}, {"B"}}
\* a long list of small discovered files, named 1..n
LongList(n) == [k \in 1..n |-> k]
LongListLengths == {k * processBatchSize + 1 : k \in 1..MaxBatches}

\* --------------------------------------------------------------- statuses
Unprocessed == "Unprocessed"
CalculatingSha256 == "CalculatingSha256"
PreviouslyUploaded == "PreviouslyUploaded"
WaitingForUpload == "WaitingForUpload"
UploadInProgress == "UploadInProgress"
UploadCompleted == "UploadCompleted"
MultipartCompletionInProgress == "MultipartCompletionInProgress"
UploadFailed == "UploadFailed"

UploadStatusEnum ==
    {Unprocessed, CalculatingSha256, PreviouslyUploaded, WaitingForUpload,
     UploadInProgress, UploadCompleted, MultipartCompletionInProgress, UploadFailed}

\* ------------------------------------------------------------------ state
VARIABLES
    run,          \* number of the current invocation of Run (1..MaxRuns)
    threads,      \* opts.Threads
    partSize,     \* opts.partSizeUint64
    size,         \* size of each local file
    fsize,        \* um.fileInfos[f].Size
    additional,   \* keys of fileOpts.AdditionalUploads
    discovered,   \* the files fs.FindFiles yields for fileOpts.GetPaths(), in order
    pcMain,       \* position of the goroutine that called Run
    digIdx,       \* index of the next file of filesToUpload to digest
    fileList,     \* um.fileList
    status,       \* um.fileInfos[f].Status
    uploaded,     \* um.fileInfos[f].Uploaded as pre-set by the producer
    errs,         \* um.errs: path -> error kind ("" when absent)
    wg,           \* counter of um.uploadWg
    files,        \* pending batch of findAllUploadUrlsGeneric
    urls,         \* keys of fileToUploadUrls
    pcProd,       \* position of the producer goroutine
    prodIdx,      \* index into fileList of the producer's current file
    prodPending,  \* descriptors of the current file still to be sent
    pcSched,      \* position of the scheduler goroutine
    schedI,       \* loop variable i of the scheduler's inner loop
    schedCur,     \* descriptor just received / result being completed
    previous,     \* previousUploadInfo (lookahead buffer), <<>> when nil
    inProgress,   \* uploadInfoInProgress
    atWorker,     \* descriptors a worker received and is uploading
    results,      \* results a worker is sending on uploadResultCh
    store,        \* checkpoint store: path -> MultipartCheckpointInfo
    corrupt,      \* files whose stored checkpoint value cannot be decoded
    serverFiles,  \* files the control plane reports with matching sha/size
    runResult,    \* what Run returned: "none", "nil"
    cancelled,    \* the caller's context is cancelled
    hist,         \* observations of the current run, used by the properties
    plan,         \* part planning of one file, sizes in bytes
    fopts,        \* FileOpts under validation
    mode,         \* monitor mode selection
    ui,           \* interactive monitor, its goroutine and the end of Run
    reader,       \* progress reader of a single-PUT file and the progress goroutine
    download      \* DownloadFileThroughUrl

engineVars == <<run, threads, partSize, size, additional, discovered, pcMain, digIdx, fileList,
          fsize, status, uploaded, errs, wg, files, urls, pcProd, prodIdx, prodPending,
          pcSched, schedI, schedCur, previous, inProgress, atWorker, results,
          store, corrupt, serverFiles, runResult, cancelled, hist>>
componentVars == <<plan, fopts, mode, ui, reader, download>>
vars == <<engineVars, componentVars>>

\* a component that takes no part in the behaviours of a specification
Off == [pc |-> "off"]
ComponentsOff ==
    /\ plan = Off
    /\ fopts = Off
    /\ mode = Off
    /\ ui = Off
    /\ reader = Off
    /\ download = Off

\* ---------------------------------------------------------------- helpers
Min(S) == CHOOSE x \in S : \A y \in S : x <= y

Range(q) == {q[k] : k \in 1..Len(q)}

RECURSIVE SortParts(_)
Unsorted(q) == q

\* slices.SortFunc(checkpoint.Parts, by PartNumber): insertion into a sorted tail
InsertPart(p, q) ==
    LET lower == SelectSeq(q, LAMBDA x : x <= p)
        upper == SelectSeq(q, LAMBDA x : x > p)
    IN  lower \o <<p>> \o upper
SortParts(q) == IF q = <<>> THEN <<>> ELSE InsertPart(Head(q), SortParts(Tail(q)))

\* fileOpts.GetPaths() expanded by fs.FindFiles: the discovered files, in order
filesToUpload == SelectSeq(discovered, LAMBDA f : f \notin additional)

\* minio.OptimalPartInfo(fileInfo.Size, partSizeUint64)
TotalPartsCount(f) == (fsize[f] + partSize - 1) \div partSize
LastPartSize(f) == fsize[f] - (TotalPartsCount(f) - 1) * partSize
ReadSize(f, p) == IF p = TotalPartsCount(f) THEN LastPartSize(f) ELSE partSize

\* an UploadInfo: PartId = 0 and UploadId = 0 ("") for a single PUT
SingleInfo(f) == [path |-> f, part |-> 0, uid |-> 0, total |-> 0]
PartInfo(f, p, u) == [path |-> f, part |-> p, uid |-> u, total |-> TotalPartsCount(f)]

\* the zero MultipartCheckpointInfo, also what an absent store reads as
NoCheckpoint == [uid |-> 0, parts |-> <<>>, usize |-> 0]

\* the part of the manager that addErr and uploadWg.Done touch
Core == [status |-> status, errs |-> errs, wg |-> wg, done |-> hist.doneCnt, panic |-> FALSE]

\* uploadWg.Done(): a negative counter panics
WgDone(c, f) ==
    IF c.panic THEN c
    ELSE [c EXCEPT !.wg = @ - 1, !.done[f] = @ + 1, !.panic = (c.wg - 1 < 0)]

\* addErr(path, err)
addErr(c, f, kind) ==
    IF c.panic THEN c
    ELSE WgDone([c EXCEPT !.status[f] = UploadFailed, !.errs[f] = kind], f)

RECURSIVE addErrAll(_, _, _)
addErrAll(c, q, kind) ==
    IF q = <<>> THEN c ELSE addErrAll(addErr(c, Head(q), kind), Tail(q), kind)

SetStatus(c, f, s) == IF c.panic THEN c ELSE [c EXCEPT !.status[f] = s]

\* writes the manager fields of c back; a panic ends the process
Commit(c, nextPc) ==
    /\ status' = c.status
    /\ errs' = c.errs
    /\ wg' = c.wg
    /\ pcMain' = IF c.panic THEN "panicked" ELSE nextPc

Alive == pcMain \notin {"returned", "panicked"}

\* ------------------------------------------------------------------- Init
HistFor(F) ==
    [doneCnt |-> [f \in F |-> 0],  \* uploadWg.Done calls made for each file
     dedupHit |-> {},                  \* files GetFile matched
     failedCalls |-> {},               \* files an upload call (any but GetFile) failed for
     urlRequested |-> {},              \* files sent in a GenerateFileUploadUrls call
     newMultipart |-> {},              \* files NewMultipartUpload was called for
     resumed |-> {},                   \* files whose checkpoint ListObjectParts confirmed
     resumedParts |-> [f \in F |-> {}], \* completed parts of that checkpoint
     emitted |-> {},                   \* descriptors the producer sent
     dispatched |-> {},                \* descriptors the scheduler sent to a worker
     putCalls |-> {},                  \* descriptors PutObject / PutObjectPart was called for
     putFailed |-> {},                 \* files a PutObject / PutObjectPart call failed for
     schedFailed |-> {},               \* files the scheduler recorded a failed result for
     lateDispatch |-> {},              \* descriptors dispatched after such a failure
     completeCalls |-> {},             \* CompleteMultipartUpload calls: path, upload-id, parts
     completeFailed |-> {},            \* files whose CompleteMultipartUpload failed
     everCompleted |-> {},             \* files that were set to UploadCompleted
     probeFailed |-> {},               \* files whose GetFile probe returned an error
     staleUid |-> [f \in F |-> 0], \* upload-id ListObjectParts did not confirm
     updateFailed |-> {},              \* files whose checkpoint update failed
     generateCalls |-> {}]             \* the GenerateFileUploadUrls calls: files, outcome

HistInit == HistFor(Files)

EngineInit ==
    /\ run = 1
    /\ threads \in ThreadChoices
    /\ partSize \in PartSizes
    /\ size \in SizeChoices
    /\ additional \in AdditionalChoices
    /\ discovered = DiscoveryOrder
    /\ pcMain = "start"
    /\ digIdx = 1
    /\ fileList = <<>>
    /\ fsize = [f \in Files |-> 0]
    /\ status = [f \in Files |-> Unprocessed]
    /\ uploaded = [f \in Files |-> 0]
    /\ errs = [f \in Files |-> ""]
    /\ wg = 0
    /\ files = <<>>
    /\ urls = {}
    /\ pcProd = "idle"
    /\ prodIdx = 1
    /\ prodPending = <<>>
    /\ pcSched = "idle"
    /\ schedI = 1
    /\ schedCur = <<>>
    /\ previous = <<>>
    /\ inProgress = {}
    /\ atWorker = {}
    /\ results = {}
    /\ store = [f \in Files |-> NoCheckpoint]
    /\ corrupt = {}
    /\ serverFiles = {}
    /\ runResult = "none"
    /\ cancelled = FALSE
    /\ hist = HistInit

Init ==
    /\ EngineInit
    /\ ComponentsOff

\* ------------------------------------------------------- Run, serial part
inputs == <<threads, partSize, size, additional, discovered, componentVars>>
env == <<inputs, cancelled, corrupt>>
prodVars == <<pcProd, prodIdx, prodPending>>
schedVars == <<pcSched, schedI, schedCur, previous, inProgress>>
workerVars == <<atWorker, results>>

\* Run up to uploadWg.Add: fileOpts.Valid() passed, the files are discovered
RunStart ==
    /\ pcMain = "start"
    /\ wg' = wg + Len(filesToUpload) + Cardinality(additional)
    /\ pcMain' = "digest"
    /\ UNCHANGED <<run, env, digIdx, fileList, fsize, status, uploaded, errs, files, urls,
                   prodVars, schedVars, workerVars, store, serverFiles, runResult, hist>>

\* what the GetFile probe can answer for f: a match only for a file the server holds
GetFileOutcomes(f) == IF f \in serverFiles THEN {"match", "error"} ELSE {"nomatch", "error"}

\* one GenerateFileUploadUrls call for the batch q: either an error, or a map
\* that holds a URL for the files of got
UrlMaps(q) ==
    IF Len(q) <= MaxPartialAnswer THEN SUBSET Range(q)
    ELSE {Range(q), Range(q) \ {q[1]}}

GenerateOutcomes(q) == {[err |-> TRUE, got |-> {}]} \cup {[err |-> FALSE, got |-> g] : g \in UrlMaps(q)}

\* the manager after the batch call answered o; the batch q is cleared only on success
AfterGenerate(c, q, o) == IF o.err THEN addErrAll(c, q, "generate") ELSE c

\* the pending list after an in-loop call: `files = nil` is reached only on success
FilesAfterCall(q, o) == IF o.err THEN q ELSE <<>>

HistGenerate(h, q, o) ==
    [h EXCEPT !.urlRequested = @ \cup Range(q),
              !.failedCalls = @ \cup (Range(q) \ o.got),
              !.generateCalls = @ \cup {[files |-> q, err |-> o.err]}]

\* findAllUploadUrlsGeneric when GetFile answered with the local sha256 and size
DedupHitNoDone(c, f) == SetStatus(c, f, PreviouslyUploaded)

DedupHit(c, f) == WgDone(SetStatus(c, f, PreviouslyUploaded), f)

\* findAllUploadUrlsGeneric when GetFile did not answer with the local sha256
\* and size, an error answer included
FailProbe(c, f) == addErr(c, f, "probe")

NotOnServer(c, f) == SetStatus(c, f, WaitingForUpload)

\* faults the digest phase of this run has met so far
DigestFaults ==
    Cardinality({f \in DOMAIN errs : errs[f] = "sha256"}) + Cardinality(hist.probeFailed)

\* one iteration of the loop of findAllUploadUrlsGeneric over filesToUpload
DigestFile ==
    /\ pcMain = "digest"
    /\ digIdx <= Len(filesToUpload)
    /\ LET f == filesToUpload[digIdx]
           c0 == SetStatus(Core, f, CalculatingSha256)
       IN  /\ fileList' = Append(fileList, f)
           /\ digIdx' = digIdx + 1
           /\ \/ \* fs.CalSha256AndSize fails
                 /\ DigestFaults < MaxDigestFaults
                 /\ LET c == addErr(c0, f, "sha256") IN
                    /\ Commit(c, "digest")
                    /\ hist' = [hist EXCEPT !.doneCnt = c.done, !.failedCalls = @ \cup {f}]
                 /\ UNCHANGED <<fsize, files, urls>>
              \/ \* GetFile reports the same sha256 and size
                 /\ "match" \in GetFileOutcomes(f)
                 /\ fsize' = [fsize EXCEPT ![f] = size[f]]
                 /\ LET c == DedupHit(c0, f) IN
                    /\ Commit(c, "digest")
                    /\ hist' = [hist EXCEPT !.doneCnt = c.done, !.dedupHit = @ \cup {f}]
                 /\ UNCHANGED <<files, urls>>
              \/ \* any other answer of GetFile, an error included
                 /\ fsize' = [fsize EXCEPT ![f] = size[f]]
                 /\ \E probe \in GetFileOutcomes(f) \ {"match"} :
                    LET c1 == NotOnServer(c0, f)
                        q == Append(files, f)
                        h1 == IF probe = "error"
                              THEN [hist EXCEPT !.probeFailed = @ \cup {f}]
                              ELSE hist
                    IN  /\ probe = "error" => DigestFaults < MaxDigestFaults
                        /\ IF Len(q) = processBatchSize
                           THEN \E o \in GenerateOutcomes(q) :
                                   LET c == AfterGenerate(c1, q, o) IN
                                   /\ Commit(c, "digest")
                                   /\ files' = FilesAfterCall(q, o)
                                   /\ urls' = urls \cup o.got
                                   /\ hist' = [HistGenerate(h1, q, o) EXCEPT !.doneCnt = c.done]
                           ELSE /\ Commit(c1, "digest")
                                /\ files' = q
                                /\ hist' = h1
                                /\ UNCHANGED urls
    /\ UNCHANGED <<run, env, uploaded, prodVars, schedVars, workerVars,
                   store, serverFiles, runResult>>

\* the rest of findAllUploadUrlsGeneric: the last, partial batch
FinalBatch ==
    /\ pcMain = "digest"
    /\ digIdx > Len(filesToUpload)
    /\ IF Len(files) > 0
       THEN \E o \in GenerateOutcomes(files) :
               LET c == AfterGenerate(Core, files, o) IN
               /\ Commit(c, "additional")
               /\ urls' = urls \cup o.got
               /\ hist' = [HistGenerate(hist, files, o) EXCEPT !.doneCnt = c.done]
       ELSE /\ pcMain' = "additional"
            /\ UNCHANGED <<status, errs, wg, urls, hist>>
    /\ UNCHANGED <<run, env, digIdx, fileList, fsize, uploaded, files, prodVars, schedVars,
                   workerVars, store, serverFiles, runResult>>

\* one iteration of Run's loop over fileOpts.AdditionalUploads
AdditionalUpload ==
    /\ pcMain = "additional"
    /\ \E f \in additional \ Range(fileList) :
          /\ urls' = urls \cup {f}
          /\ fileList' = Append(fileList, f)
          /\ \/ \* fs.CalSha256AndSize fails
                LET c == addErr(Core, f, "sha256") IN
                /\ Commit(c, "additional")
                /\ hist' = [hist EXCEPT !.doneCnt = c.done, !.failedCalls = @ \cup {f}]
                /\ UNCHANGED fsize
             \/ /\ fsize' = [fsize EXCEPT ![f] = size[f]]
                /\ UNCHANGED <<status, errs, wg, pcMain, hist>>
    /\ UNCHANGED <<run, env, digIdx, uploaded, files, prodVars, schedVars,
                   workerVars, store, serverFiles, runResult>>

\* Run starts the workers, the producer and the scheduler and blocks in Wait
StartGoroutines ==
    /\ pcMain = "additional"
    /\ additional \subseteq Range(fileList)
    /\ pcMain' = "wait"
    /\ pcProd' = "next"
    /\ pcSched' = "loop"
    /\ schedI' = Cardinality(inProgress) + 1
    /\ UNCHANGED <<run, env, digIdx, fileList, fsize, status, uploaded, errs, wg, files, urls,
                   prodIdx, prodPending, schedCur, previous, inProgress, workerVars,
                   store, serverFiles, runResult, hist>>

\* uploadWg.Wait() returns once the counter is zero; Run then returns nil
RunReturn ==
    /\ pcMain = "wait"
    /\ wg = 0
    /\ pcMain' = "returned"
    /\ runResult' = "nil"
    /\ UNCHANGED <<run, env, digIdx, fileList, fsize, status, uploaded, errs, wg, files, urls,
                   prodVars, schedVars, workerVars, store, serverFiles, hist>>

\* --------------------------------------------------------------- producer
Running == pcMain = "wait"

\* ListObjectParts for the checkpoint's upload-id: parts, or none / an error
ListObjectPartsOutcomes == {"live", "stale"}

\* the loop of produceMultipartUploadInfos over 1..totalPartsCount
RECURSIVE RemainingParts(_, _, _, _)
AllParts(f, partId, done, u) ==
    [k \in 1..(TotalPartsCount(f) - partId + 1) |-> PartInfo(f, partId + k - 1, u)]

RemainingParts(f, partId, done, u) ==
    IF partId > TotalPartsCount(f) THEN <<>>
    ELSE IF partId \in done THEN RemainingParts(f, partId + 1, done, u)
    ELSE <<PartInfo(f, partId, u)>> \o RemainingParts(f, partId + 1, done, u)

\* db.Get(mutipartUploadInfoKey, &checkpoint): an undecodable value is an error,
\* after which produceMultipartUploadInfos continues with the zero checkpoint
GetCheckpoint(f) == IF f \in corrupt THEN NoCheckpoint ELSE store[f]

\* db.Reset()
ResetCheckpoint(st, f) == [st EXCEPT ![f] = NoCheckpoint]

\* the checkpoint produceMultipartUploadInfos plans from: the stored one when
\* ListObjectParts confirmed its upload-id, the zero checkpoint otherwise
KeepStoredCheckpoint(stored, live) == stored

ReconciledCheckpoint(stored, live) == IF live THEN stored ELSE NoCheckpoint

\* produceUploadInfos moves on to the next file of fileList
ProducerAdvance ==
    /\ pcProd' = "next"
    /\ prodIdx' = prodIdx + 1
    /\ prodPending' = <<>>

\* produceUploadInfos: one file is planned (or skipped); the channel is closed at the end
ProducerNext ==
    /\ Running
    /\ pcProd = "next"
    /\ IF prodIdx > Len(fileList)
       THEN /\ pcProd' = "closed"
            /\ UNCHANGED <<prodIdx, prodPending, status, errs, wg, pcMain, uploaded, store, hist>>
       ELSE LET f == fileList[prodIdx] IN
            IF f \notin urls
            THEN /\ ProducerAdvance
                 /\ UNCHANGED <<status, errs, wg, pcMain, uploaded, store, hist>>
            ELSE IF fsize[f] <= partSize
            THEN \/ \* os.Open succeeds: one single-PUT descriptor
                    /\ pcProd' = "send"
                    /\ prodPending' = <<SingleInfo(f)>>
                    /\ UNCHANGED <<prodIdx, status, errs, wg, pcMain, uploaded, store, hist>>
                 \/ \* os.Open fails
                    LET c == addErr(Core, f, "open") IN
                    /\ Commit(c, pcMain)
                    /\ ProducerAdvance
                    /\ hist' = [hist EXCEPT !.doneCnt = c.done, !.failedCalls = @ \cup {f}]
                    /\ UNCHANGED <<uploaded, store>>
            ELSE IF fsize[f] > maxSinglePutObjectSize
            THEN LET c == addErr(Core, f, "toolarge") IN
                 /\ Commit(c, pcMain)
                 /\ ProducerAdvance
                 /\ hist' = [hist EXCEPT !.doneCnt = c.done]
                 /\ UNCHANGED <<uploaded, store>>
            ELSE \E list \in (IF GetCheckpoint(f).uid # 0 THEN ListObjectPartsOutcomes ELSE {"none"}),
                    newOk \in BOOLEAN :
                    LET live == list = "live"
                        stored == GetCheckpoint(f)
                        checkpoint == ReconciledCheckpoint(stored, live)
                        h1 == IF live
                              THEN [hist EXCEPT !.resumed = @ \cup {f},
                                                !.resumedParts[f] = Range(stored.parts)]
                              ELSE [hist EXCEPT !.newMultipart = @ \cup {f},
                                                !.failedCalls = @ \cup (IF list = "stale" THEN {f} ELSE {}),
                                                !.staleUid[f] = IF list = "stale" THEN stored.uid ELSE @]
                    IN  /\ live => newOk
                        /\ cancelled => ~live /\ ~newOk
                        /\ store' = IF list = "stale" THEN ResetCheckpoint(store, f)
                                    ELSE store
                        /\ IF ~newOk
                           THEN \* NewMultipartUpload fails
                                LET c == addErr(Core, f, "plan") IN
                                /\ Commit(c, pcMain)
                                /\ ProducerAdvance
                                /\ hist' = [h1 EXCEPT !.doneCnt = c.done,
                                                      !.failedCalls = @ \cup {f}]
                                /\ UNCHANGED uploaded
                           ELSE LET u == IF live THEN checkpoint.uid ELSE run
                                    infos == RemainingParts(f, 1, Range(checkpoint.parts), u)
                                IN  /\ uploaded' = [uploaded EXCEPT ![f] = checkpoint.usize]
                                    /\ hist' = h1
                                    /\ IF infos = <<>>
                                       THEN ProducerAdvance
                                       ELSE /\ pcProd' = "send0"
                                            /\ prodPending' = infos
                                            /\ UNCHANGED prodIdx
                                    /\ UNCHANGED <<status, errs, wg, pcMain>>
    /\ UNCHANGED <<run, env, digIdx, fileList, fsize, files, urls, schedVars, workerVars,
                   serverFiles, runResult>>

\* produceUploadInfos line 443: after the first descriptor of a multipart file was taken
ProducerMarkInProgress ==
    /\ Running
    /\ pcProd = "mark"
    /\ status' = [status EXCEPT ![fileList[prodIdx]] = UploadInProgress]
    /\ IF prodPending = <<>>
       THEN ProducerAdvance
       ELSE /\ pcProd' = "send"
            /\ UNCHANGED <<prodIdx, prodPending>>
    /\ UNCHANGED <<run, env, pcMain, digIdx, fileList, fsize, uploaded, errs, wg, files, urls,
                   schedVars, workerVars, store, serverFiles, runResult, hist>>

\* -------------------------------------------------------------- scheduler
\* lo.Min over the in-progress part ids of the candidate's file; 0 when there is none
leastUploadingPartId(cand, inProg) ==
    LET ids == {d.part : d \in {x \in inProg : x.path = cand.path}}
    IN  IF ids = {} THEN 0 ELSE Min(ids)

windowSize == IF defaultWindowSize < partSize THEN partSize ELSE defaultWindowSize

canUploadNoWindow(cand, inProg) == TRUE

canUpload(cand, inProg) ==
    LET least == leastUploadingPartId(cand, inProg)
    IN  IF least = 0 THEN TRUE
        ELSE cand.part <= least + windowSize \div partSize

\* uploadCh <- info; append to uploadInfoInProgress
Dispatch(d) ==
    /\ atWorker' = atWorker \cup {d}
    /\ inProgress' = inProgress \cup {d}
    /\ hist' = [hist EXCEPT !.dispatched = @ \cup {d},
                            !.lateDispatch = @ \cup (IF d.path \in hist.schedFailed THEN {d} ELSE {})]

\* the scheduler's inner loop, except the receive from the producer
SchedLoop ==
    /\ Running
    /\ pcSched = "loop"
    /\ IF schedI > threads
       THEN /\ pcSched' = "recv"
            /\ UNCHANGED <<schedI, previous, inProgress, atWorker, hist>>
       ELSE IF previous # <<>>
       THEN IF status[previous[1].path] = UploadFailed
            THEN /\ previous' = <<>>
                 /\ UNCHANGED <<pcSched, schedI, inProgress, atWorker, hist>>
            ELSE IF canUpload(previous[1], inProgress)
            THEN /\ Dispatch(previous[1])
                 /\ previous' = <<>>
                 /\ schedI' = schedI + 1
                 /\ UNCHANGED pcSched
            ELSE /\ pcSched' = "recv"
                 /\ UNCHANGED <<schedI, previous, inProgress, atWorker, hist>>
       ELSE \* the producer closed uploadInfos: the receive yields ok = false
            /\ pcProd = "closed"
            /\ schedI' = schedI + 1
            /\ UNCHANGED <<pcSched, previous, inProgress, atWorker, hist>>
    /\ UNCHANGED <<run, env, pcMain, digIdx, fileList, fsize, status, uploaded, errs, wg,
                   files, urls, prodVars, schedCur, results, store, serverFiles, runResult>>

\* uploadInfos is unbuffered: the producer's send and the scheduler's receive are one step
Handoff ==
    /\ Running
    /\ pcSched = "loop"
    /\ schedI <= threads
    /\ previous = <<>>
    /\ pcProd \in {"send0", "send"}
    /\ schedCur' = <<Head(prodPending)>>
    /\ pcSched' = "check"
    /\ hist' = [hist EXCEPT !.emitted = @ \cup {Head(prodPending)}]
    /\ IF pcProd = "send0"
       THEN /\ pcProd' = "mark"
            /\ prodPending' = Tail(prodPending)
            /\ UNCHANGED prodIdx
       ELSE IF Tail(prodPending) = <<>>
       THEN ProducerAdvance
       ELSE /\ prodPending' = Tail(prodPending)
            /\ UNCHANGED <<pcProd, prodIdx>>
    /\ UNCHANGED <<run, env, pcMain, digIdx, fileList, fsize, status, uploaded, errs, wg,
                   files, urls, schedI, previous, inProgress, workerVars, store, serverFiles,
                   runResult>>

\* previousUploadInfo = &uploadInfo: the descriptor the window does not admit
\* is kept for the next round
DropDescriptor(d) == <<>>

Hold(d) == <<d>>

\* the scheduler's inner loop on a descriptor it just received
SchedCheck ==
    /\ Running
    /\ pcSched = "check"
    /\ LET d == schedCur[1] IN
       IF status[d.path] = UploadFailed
       THEN /\ pcSched' = "loop"
            /\ UNCHANGED <<schedI, previous, inProgress, atWorker, hist>>
       ELSE IF canUpload(d, inProgress)
       THEN /\ Dispatch(d)
            /\ schedI' = schedI + 1
            /\ pcSched' = "loop"
            /\ UNCHANGED previous
       ELSE /\ previous' = Hold(d)
            /\ pcSched' = "recv"
            /\ UNCHANGED <<schedI, inProgress, atWorker, hist>>
    /\ schedCur' = <<>>
    /\ UNCHANGED <<run, env, pcMain, digIdx, fileList, fsize, status, uploaded, errs, wg,
                   files, urls, prodVars, results, store, serverFiles, runResult>>

\* the transaction of handleUploadResult on the checkpoint of a successful part
UpdateCheckpointNoSize(ck, d) ==
    [uid |-> d.uid, usize |-> ck.usize, parts |-> Append(ck.parts, d.part)]

UpdateCheckpoint(ck, d) ==
    [uid |-> d.uid,
     usize |-> ck.usize + ReadSize(d.path, d.part),
     parts |-> Append(ck.parts, d.part)]

\* lo.Filter(uploadInfoInProgress, ...): the descriptor of the result leaves
\* the in-flight list
KeepInFlight(inProg, d) == inProg

RemoveInFlight(inProg, d) == {x \in inProg : x.path # d.path \/ x.part # d.part}

\* result := <-uploadResultCh and what the scheduler does with it, up to the
\* CompleteMultipartUpload call
SchedRecv ==
    /\ Running
    /\ pcSched = "recv"
    /\ \E r \in results :
          LET d == r.info
              f == d.path
              left == RemoveInFlight(inProgress, d)
          IN  /\ results' = results \ {r}
              /\ inProgress' = left
              /\ schedI' = Cardinality(left) + 1
              /\ IF status[f] = UploadFailed
                 THEN \* some other part of the same file has failed
                      /\ pcSched' = "loop"
                      /\ UNCHANGED <<status, errs, wg, pcMain, schedCur, store, hist>>
                 ELSE IF r.err
                 THEN LET c == addErr(Core, f, "put") IN
                      /\ Commit(c, pcMain)
                      /\ pcSched' = "loop"
                      /\ hist' = [hist EXCEPT !.doneCnt = c.done, !.schedFailed = @ \cup {f}]
                      /\ UNCHANGED <<schedCur, store>>
                 ELSE IF d.uid = 0
                 THEN \* a single PUT succeeded
                      LET c == WgDone(SetStatus(Core, f, UploadCompleted), f) IN
                      /\ Commit(c, pcMain)
                      /\ pcSched' = "loop"
                      /\ hist' = [hist EXCEPT !.doneCnt = c.done, !.everCompleted = @ \cup {f}]
                      /\ UNCHANGED <<schedCur, store>>
                 ELSE IF f \in corrupt
                 THEN \* a part succeeded, json.Unmarshal of the stored value fails
                      LET c == addErr(Core, f, "checkpoint") IN
                      /\ Commit(c, pcMain)
                      /\ pcSched' = "loop"
                      /\ hist' = [hist EXCEPT !.doneCnt = c.done, !.schedFailed = @ \cup {f},
                                              !.updateFailed = @ \cup {f}]
                      /\ UNCHANGED <<schedCur, store>>
                 ELSE \* a part succeeded
                      LET checkpoint == UpdateCheckpoint(store[f], d) IN
                      /\ store' = [store EXCEPT ![f] = checkpoint]
                      /\ IF Len(checkpoint.parts) = d.total
                         THEN /\ status' = [status EXCEPT ![f] = MultipartCompletionInProgress]
                              /\ pcSched' = "completing"
                              /\ schedCur' = <<d>>
                         ELSE /\ pcSched' = "loop"
                              /\ UNCHANGED <<status, schedCur>>
                      /\ UNCHANGED <<errs, wg, pcMain, hist>>
    /\ UNCHANGED <<run, env, digIdx, fileList, fsize, uploaded, files, urls, prodVars,
                   previous, atWorker, serverFiles, runResult>>

\* the checkpoint store after handleUploadResult's deferred DB.Delete()
DeleteCheckpoint(st, f) == [st EXCEPT ![f] = NoCheckpoint]

\* the store when handleUploadResult returns from the completion branch
StoreAfterComplete(st, f, ok) == DeleteCheckpoint(st, f)

\* handleUploadResult from the CompleteMultipartUpload call to its return
SchedComplete ==
    /\ Running
    /\ pcSched = "completing"
    /\ \E ok \in BOOLEAN :
          LET d == schedCur[1]
              f == d.path
              call == [path |-> f, uid |-> d.uid, parts |-> SortParts(store[f].parts),
                       total |-> d.total]
              c == IF ok THEN WgDone(SetStatus(Core, f, UploadCompleted), f)
                   ELSE addErr(Core, f, "complete")
          IN  /\ Commit(c, pcMain)
              /\ store' = StoreAfterComplete(store, f, ok)
              /\ serverFiles' = IF ok THEN serverFiles \cup {f} ELSE serverFiles
              /\ hist' = [hist EXCEPT !.doneCnt = c.done,
                                      !.completeCalls = @ \cup {call},
                                      !.completeFailed = @ \cup (IF ok THEN {} ELSE {f}),
                                      !.everCompleted = @ \cup (IF ok THEN {f} ELSE {}),
                                      !.schedFailed = @ \cup (IF ok THEN {} ELSE {f}),
                                      !.failedCalls = @ \cup (IF ok THEN {} ELSE {f})]
    /\ pcSched' = "loop"
    /\ schedCur' = <<>>
    /\ UNCHANGED <<run, env, digIdx, fileList, fsize, uploaded, files, urls, prodVars,
                   schedI, previous, inProgress, workerVars, runResult>>

\* ---------------------------------------------------------------- workers
\* a worker runs consumeSingleUploadInfo / consumeMultipartUploadInfo on a
\* descriptor it received and offers the result on uploadResultCh
WorkerPut ==
    /\ Running
    /\ \E d \in atWorker, ok \in BOOLEAN :
          /\ cancelled => ~ok
          /\ atWorker' = atWorker \ {d}
          /\ results' = results \cup {[info |-> d, err |-> ~ok]}
          /\ status' = IF d.uid = 0 THEN [status EXCEPT ![d.path] = UploadInProgress]
                       ELSE status
          /\ serverFiles' = IF d.uid = 0 /\ ok THEN serverFiles \cup {d.path} ELSE serverFiles
          /\ hist' = [hist EXCEPT !.putCalls = @ \cup {d},
                                  !.putFailed = @ \cup (IF ok THEN {} ELSE {d.path}),
                                  !.failedCalls = @ \cup (IF ok THEN {} ELSE {d.path})]
    /\ UNCHANGED <<run, env, pcMain, digIdx, fileList, fsize, uploaded, errs, wg, files, urls,
                   prodVars, schedVars, store, runResult>>

\* ------------------------------------------------------- kill and restart
\* the process is killed (or has ended) and Run is invoked again on the same
\* files: only the checkpoint store and the server's inventory survive
Restart ==
    /\ run < MaxRuns
    /\ pcMain # "start"
    /\ run' = run + 1
    /\ pcMain' = "start"
    /\ digIdx' = 1
    /\ fileList' = <<>>
    /\ fsize' = [f \in Files |-> 0]
    /\ status' = [f \in Files |-> Unprocessed]
    /\ uploaded' = [f \in Files |-> 0]
    /\ errs' = [f \in Files |-> ""]
    /\ wg' = 0
    /\ files' = <<>>
    /\ urls' = {}
    /\ pcProd' = "idle"
    /\ prodIdx' = 1
    /\ prodPending' = <<>>
    /\ pcSched' = "idle"
    /\ schedI' = 1
    /\ schedCur' = <<>>
    /\ previous' = <<>>
    /\ inProgress' = {}
    /\ atWorker' = {}
    /\ results' = {}
    /\ runResult' = "none"
    /\ cancelled' = FALSE
    /\ hist' = HistInit
    /\ UNCHANGED <<inputs, store, corrupt, serverFiles>>

\* the stored checkpoint of a file is overwritten with arbitrary bytes between two runs
CorruptCheckpoint ==
    /\ pcMain = "start"
    /\ \E f \in DOMAIN store :
          /\ store[f] # NoCheckpoint
          /\ corrupt' = corrupt \cup {f}
          /\ store' = [store EXCEPT ![f] = NoCheckpoint]
    /\ UNCHANGED <<run, inputs, pcMain, digIdx, fileList, fsize, status, uploaded, errs, wg,
                   files, urls, prodVars, schedVars, workerVars, serverFiles, runResult,
                   cancelled, hist>>

\* the caller cancels ctx; the serial part of Run never reads ctx, so a
\* cancellation before the goroutines start is one right after
Cancel ==
    /\ Running
    /\ ~cancelled
    /\ cancelled' = TRUE
    /\ UNCHANGED <<run, inputs, pcMain, digIdx, fileList, fsize, status, uploaded, errs, wg,
                   files, urls, prodVars, schedVars, workerVars, store, corrupt,
                   serverFiles, runResult, hist>>

Next ==
    \/ RunStart
    \/ DigestFile
    \/ FinalBatch
    \/ AdditionalUpload
    \/ StartGoroutines
    \/ RunReturn
    \/ ProducerNext
    \/ ProducerMarkInProgress
    \/ SchedLoop
    \/ Handoff
    \/ SchedCheck
    \/ SchedRecv
    \/ SchedComplete
    \/ WorkerPut
    \/ Cancel
    \/ Restart
    \/ CorruptCheckpoint

Spec == Init /\ [][Next]_vars

\* the goroutines of Run are scheduled by the Go runtime: a step that stays
\* possible is taken; a kill, a cancellation and a damaged store are not owed
Fairness ==
    /\ WF_vars(RunStart)
    /\ WF_vars(DigestFile)
    /\ WF_vars(FinalBatch)
    /\ WF_vars(AdditionalUpload)
    /\ WF_vars(StartGoroutines)
    /\ WF_vars(RunReturn)
    /\ WF_vars(ProducerNext)
    /\ WF_vars(ProducerMarkInProgress)
    /\ WF_vars(SchedLoop)
    /\ WF_vars(Handoff)
    /\ WF_vars(SchedCheck)
    /\ WF_vars(SchedRecv)
    /\ WF_vars(SchedComplete)
    /\ WF_vars(WorkerPut)

SpecFair == Init /\ [][Next]_vars /\ Fairness

\* Run over a long list of small files, up to the start of the goroutines
InitLongList ==
    /\ run = 1
    /\ threads = 1
    /\ partSize = 1024
    /\ \E n \in LongListLengths :
          /\ discovered = LongList(n)
          /\ size = [f \in 1..n |-> 512]
          /\ fsize = [f \in 1..n |-> 0]
          /\ status = [f \in 1..n |-> Unprocessed]
          /\ uploaded = [f \in 1..n |-> 0]
          /\ errs = [f \in 1..n |-> ""]
          /\ store = [f \in 1..n |-> NoCheckpoint]
          /\ hist = HistFor(1..n)
    /\ additional = {}
    /\ pcMain = "start"
    /\ digIdx = 1
    /\ fileList = <<>>
    /\ wg = 0
    /\ files = <<>>
    /\ urls = {}
    /\ pcProd = "idle"
    /\ prodIdx = 1
    /\ prodPending = <<>>
    /\ pcSched = "idle"
    /\ schedI = 1
    /\ schedCur = <<>>
    /\ previous = <<>>
    /\ inProgress = {}
    /\ atWorker = {}
    /\ results = {}
    /\ corrupt = {}
    /\ serverFiles \in {{}, {processBatchSize}}
    /\ runResult = "none"
    /\ cancelled = FALSE
    /\ ComponentsOff

NextLongList ==
    \/ RunStart
    \/ DigestFile
    \/ FinalBatch

SpecLongList == InitLongList /\ [][NextLongList]_vars

\* ---------------------------------------------- part planning, in bytes
\* A byte count is the record [gib, rem] for gib * 2^30 + rem bytes, with
\* 0 <= rem < 2^30, so that an int64 of the program is held without loss.
GiB == 1073741824
MiB == 1048576
Bytes(g, r) == [gib |-> g + (r \div GiB), rem |-> r % GiB]
BytesLE(a, b) == a.gib < b.gib \/ (a.gib = b.gib /\ a.rem <= b.rem)
BytesPlus(a, b) == Bytes(a.gib + b.gib, a.rem + b.rem)
BytesMinus(a, b) ==
    IF a.rem >= b.rem
    THEN [gib |-> a.gib - b.gib, rem |-> a.rem - b.rem]
    ELSE [gib |-> a.gib - b.gib - 1, rem |-> a.rem + (GiB - b.rem)]
\* k times ps bytes, for a part size ps that divides 2^30
PartsBytes(k, ps) ==
    LET perGiB == GiB \div ps IN [gib |-> k \div perGiB, rem |-> (k % perGiB) * ps]

maxSinglePutObjectBytes == Bytes(500, 0)
defaultPartSize == 128 * MiB

PlanPartSizes == {defaultPartSize \div 2, defaultPartSize}
PlanSizes(ps) ==
    {Bytes(0, k * ps + d) : k \in 0..2, d \in {0, 1, ps - 1}}
    \cup {Bytes(0, 3 * ps)}
    \cup {Bytes(499, GiB - 1), Bytes(500, 0), Bytes(500, 1), Bytes(500, ps)}

ExceedsCapInclusive(objectSize) == BytesLE(maxSinglePutObjectBytes, objectSize)

\* fileInfo.Size > int64(maxSinglePutObjectSize)
ExceedsCap(objectSize) == ~BytesLE(objectSize, maxSinglePutObjectBytes)

\* minio.OptimalPartInfo for a configured part size: the number of parts is
\* ceil(objectSize / partSize), the last part holds the rest
OptimalPartInfo(objectSize, configuredPartSize) ==
    LET perGiB == GiB \div configuredPartSize
        n == objectSize.gib * perGiB
             + ((objectSize.rem + configuredPartSize - 1) \div configuredPartSize)
    IN [totalPartsCount |-> n,
        partSize |-> configuredPartSize,
        lastPartSize |-> BytesMinus(objectSize, PartsBytes(n - 1, configuredPartSize)).rem]

PlanReadOffsetFromOne(partId, ps) == PartsBytes(partId, ps)

\* ReadOffset: int64(partId-1) * partSize
PlanReadOffset(partId, ps) == PartsBytes(partId - 1, ps)

\* the descriptor of a single-PUT file: no part number, offset or length
PlanSingleInfo == [PartId |-> 0, TotalPartsCount |-> 0, ReadOffset |-> Bytes(0, 0), ReadSize |-> 0]

\* the descriptors of a file without checkpoint
PlanMultipartInfos(objectSize, ps) ==
    LET opt == OptimalPartInfo(objectSize, ps) IN
    [partId \in 1..opt.totalPartsCount |->
        [PartId |-> partId,
         TotalPartsCount |-> opt.totalPartsCount,
         ReadOffset |-> PlanReadOffset(partId, opt.partSize),
         ReadSize |-> IF partId = opt.totalPartsCount THEN opt.lastPartSize ELSE opt.partSize]]

PlanStart(objectSize, ps) ==
    [pc |-> "start", size |-> objectSize, partSize |-> ps, status |-> WaitingForUpload,
     err |-> "", dbCreated |-> FALSE, newMultipartCalls |-> 0, infos |-> <<>>]

PlanFail(kind) == plan' = [plan EXCEPT !.pc = "failed", !.err = kind, !.status = UploadFailed]

\* produceUploadInfos for one file: the single-PUT path or the call of
\* produceMultipartUploadInfos
PlanFile ==
    /\ plan.pc = "start"
    /\ IF BytesLE(plan.size, Bytes(0, plan.partSize))
       THEN \/ PlanFail("open")
            \/ plan' = [plan EXCEPT !.pc = "done", !.infos = <<PlanSingleInfo>>]
       ELSE plan' = [plan EXCEPT !.pc = "multipart"]
    /\ UNCHANGED <<engineVars, fopts, mode, ui, reader, download>>

\* the size cap of produceMultipartUploadInfos
PlanSizeCap ==
    /\ plan.pc = "multipart"
    /\ IF ExceedsCap(plan.size)
       THEN PlanFail("toolarge")
       ELSE plan' = [plan EXCEPT !.pc = "db"]
    /\ UNCHANGED <<engineVars, fopts, mode, ui, reader, download>>

\* os.MkdirAll, NewUploadDB and db.Get for a file without checkpoint
PlanOpenStore ==
    /\ plan.pc = "db"
    /\ \/ PlanFail("db")
       \/ plan' = [plan EXCEPT !.pc = "upload", !.dbCreated = TRUE]
    /\ UNCHANGED <<engineVars, fopts, mode, ui, reader, download>>

PlanNewMultipartUpload ==
    /\ plan.pc = "upload"
    /\ \/ plan' = [plan EXCEPT !.pc = "failed", !.err = "newmultipart", !.status = UploadFailed,
                               !.newMultipartCalls = @ + 1]
       \/ plan' = [plan EXCEPT !.pc = "parts", !.newMultipartCalls = @ + 1]
    /\ UNCHANGED <<engineVars, fopts, mode, ui, reader, download>>

\* OptimalPartInfo, os.Open and the loop over the parts
PlanParts ==
    /\ plan.pc = "parts"
    /\ \/ PlanFail("open")
       \/ plan' = [plan EXCEPT !.pc = "done",
                               !.infos = PlanMultipartInfos(plan.size, plan.partSize)]
    /\ UNCHANGED <<engineVars, fopts, mode, ui, reader, download>>

\* the engine at rest: one fixed configuration, nothing started
EngineAtRest ==
    /\ EngineInit
    /\ threads = 1
    /\ partSize = 1024
    /\ size = [f \in Files |-> 512]
    /\ additional = {}

InitPlan ==
    /\ EngineAtRest
    /\ \E ps \in PlanPartSizes : \E s \in PlanSizes(ps) : plan = PlanStart(s, ps)
    /\ fopts = Off
    /\ mode = Off
    /\ ui = Off
    /\ reader = Off
    /\ download = Off

NextPlan ==
    \/ PlanFile
    \/ PlanSizeCap
    \/ PlanOpenStore
    \/ PlanNewMultipartUpload
    \/ PlanParts

SpecPlan == InitPlan /\ [][NextPlan]_vars

\* ------------------------------------------------- FileOpts, paths as text
\* A path is the sequence of its characters.
MaxPathLen == 6
Separator == "/"
Dot == <<".">>
PathChars == {"a", Separator, "*", "["}
Paths == UNION {[1..n -> PathChars] : n \in 0..MaxPathLen}

\* strings.IndexAny: position (from 0) of the first character of chars, or -1
IndexAny(s, chars) ==
    LET hits == {i \in 1..Len(s) : s[i] \in chars} IN
    IF hits = {} THEN -1 ELSE (CHOOSE i \in hits : \A j \in hits : i <= j) - 1

\* strings.TrimRight for one cut character
TrimRight(s, c) ==
    LET keep == CHOOSE i \in 0..Len(s) :
                   /\ \A j \in (i + 1)..Len(s) : s[j] = c
                   /\ i = 0 \/ s[i] # c
    IN SubSeq(s, 1, keep)

RECURSIVE SplitPath(_)
\* the non-empty elements of a path
SplitPath(s) ==
    IF s = <<>> THEN <<>>
    ELSE LET cut == IndexAny(s, {Separator}) IN
         IF cut = -1 THEN <<s>>
         ELSE IF cut = 0 THEN SplitPath(Tail(s))
         ELSE <<SubSeq(s, 1, cut)>> \o SplitPath(SubSeq(s, cut + 2, Len(s)))

RECURSIVE JoinPath(_)
JoinPath(elems) ==
    IF elems = <<>> THEN <<>>
    ELSE IF Len(elems) = 1 THEN elems[1]
    ELSE elems[1] \o <<Separator>> \o JoinPath(Tail(elems))

\* filepath.Clean for a path without "." and ".." elements
Clean(s) ==
    LET out == JoinPath(SplitPath(s)) IN
    IF s # <<>> /\ s[1] = Separator THEN <<Separator>> \o out
    ELSE IF out = <<>> THEN Dot
    ELSE out

\* filepath.Dir: the path up to its last separator, cleaned
Dir(path) ==
    LET seps == {i \in 1..Len(path) : path[i] = Separator}
        last == IF seps = {} THEN 0 ELSE CHOOSE i \in seps : \A j \in seps : j <= i
    IN Clean(SubSeq(path, 1, last))

PathElems(p) == IF p = Dot THEN <<>> ELSE SplitPath(p)
IsAbs(p) == p # <<>> /\ p[1] = Separator

\* filepath.Rel for cleaned paths
Rel(basepath, targpath) ==
    LET b == PathElems(basepath)
        t == PathElems(targpath)
        common == CHOOSE k \in 0..Min({Len(b), Len(t)}) :
                     /\ \A i \in 1..k : b[i] = t[i]
                     /\ k = Min({Len(b), Len(t)}) \/ b[k + 1] # t[k + 1]
        ups == [i \in 1..(Len(b) - common) |-> <<".", ".">>]
        out == JoinPath(ups \o SubSeq(t, common + 1, Len(t)))
    IN IF IsAbs(basepath) # IsAbs(targpath) THEN [err |-> TRUE, path |-> <<>>]
       ELSE [err |-> FALSE, path |-> IF out = <<>> THEN Dot ELSE out]

hasGlobPattern(path) == IndexAny(path, {"*", "?", "["}) # -1

globBaseDir(pattern) ==
    LET wildcardPos == IndexAny(pattern, {"*", "?", "["}) IN
    IF wildcardPos = -1 THEN Dir(pattern)
    ELSE Dir(TrimRight(SubSeq(pattern, 1, wildcardPos), Separator))

\* filepath.Glob: a pattern with a "[" that is never closed is malformed;
\* otherwise the file system holds no match, or the match that has "f" for
\* every "*"
Glob(pattern, found) ==
    IF \E i \in 1..Len(pattern) : pattern[i] = "["
    THEN [err |-> TRUE, matches |-> <<>>]
    ELSE [err |-> FALSE,
          matches |-> IF found
                      THEN <<Clean([i \in 1..Len(pattern) |->
                                      IF pattern[i] = "*" THEN "f" ELSE pattern[i]])>>
                      ELSE <<>>]

ValidAlways(opt, found) == [err |-> "", relDir |-> Dot, expandedPaths |-> <<opt.Path>>]

\* FileOpts.Valid; found: os.Stat finds the path / the glob has a match
Valid(opt, found) ==
    IF opt.Path = <<>> /\ ~opt.AdditionalUploads
    THEN [err |-> "file path empty", relDir |-> <<>>, expandedPaths |-> <<>>]
    ELSE IF opt.Path = <<>>
    THEN [err |-> "", relDir |-> <<>>, expandedPaths |-> <<>>]
    ELSE IF hasGlobPattern(opt.Path)
    THEN LET g == Glob(opt.Path, found) IN
         IF g.err
         THEN [err |-> "invalid glob pattern", relDir |-> <<>>, expandedPaths |-> <<>>]
         ELSE IF Len(g.matches) = 0
         THEN [err |-> "glob pattern matched no files", relDir |-> <<>>, expandedPaths |-> <<>>]
         ELSE [err |-> "", relDir |-> globBaseDir(opt.Path), expandedPaths |-> g.matches]
    ELSE IF ~found
    THEN [err |-> "invalid file path", relDir |-> <<>>, expandedPaths |-> <<>>]
    ELSE [err |-> "", relDir |-> Dir(opt.Path), expandedPaths |-> <<>>]

\* FileOpts.GetPaths
GetPaths(opt) ==
    IF Len(opt.expandedPaths) > 0 THEN opt.expandedPaths
    ELSE IF opt.Path # <<>> THEN <<opt.Path>>
    ELSE <<>>

\* Run up to the return on an invalid FileOpts
RunValid ==
    /\ fopts.pc = "called"
    /\ pcMain = "start"
    /\ LET v == Valid(fopts, fopts.found) IN
       IF v.err # ""
       THEN /\ fopts' = [fopts EXCEPT !.pc = "invalid", !.err = v.err]
            /\ pcMain' = "returned"
            /\ runResult' = "error"
       ELSE /\ fopts' = [fopts EXCEPT !.pc = "valid", !.relDir = v.relDir,
                                      !.expandedPaths = v.expandedPaths]
            /\ UNCHANGED <<pcMain, runResult>>
    /\ UNCHANGED <<run, threads, partSize, size, additional, discovered, digIdx, fileList,
                   fsize, status, uploaded, errs, wg, files, urls, prodVars, schedVars,
                   workerVars, store, corrupt, serverFiles, cancelled, hist,
                   plan, mode, ui, reader, download>>

\* Run from the monitor start to uploadWg.Add, for a valid FileOpts
RunStartValid ==
    /\ fopts.pc = "valid"
    /\ RunStart

\* findAllUploadUrlsGeneric: the remote path of the first path of GetPaths,
\* taken as a file
RemotePath ==
    /\ fopts.pc = "valid"
    /\ pcMain = "digest"
    /\ GetPaths(fopts) # <<>>
    /\ LET rel == Rel(fopts.relDir, GetPaths(fopts)[1]) IN
       fopts' = [fopts EXCEPT !.pc = "named", !.relErr = rel.err, !.remotePath = rel.path]
    /\ UNCHANGED <<engineVars, plan, mode, ui, reader, download>>

InitOpts ==
    /\ EngineAtRest
    /\ \E p \in Paths, fnd \in BOOLEAN, add \in BOOLEAN :
          fopts = [pc |-> "called", Path |-> p, AdditionalUploads |-> add, found |-> fnd,
                   relDir |-> <<>>, expandedPaths |-> <<>>, err |-> "",
                   relErr |-> FALSE, remotePath |-> <<>>]
    /\ plan = Off
    /\ mode = Off
    /\ ui = Off
    /\ reader = Off
    /\ download = Off

NextOpts ==
    \/ RunValid
    \/ RunStartValid
    \/ RemotePath

SpecOpts == InitOpts /\ [][NextOpts]_vars

\* ------------------------------------------------- monitor mode selection
\* values of the environment variables CI and TERM ("" when unset)
CIValues == {"", "true", "false"}
TERMValues == {"", "dumb", "xterm"}

\* IsHeadlessEnvironment, over what term.IsTerminal and os.Getenv answer
IsHeadlessEnvironment(e) ==
    IF ~e.stdinIsTerminal \/ ~e.stdoutIsTerminal THEN TRUE
    ELSE IF e.CI = "true" THEN TRUE
    ELSE IF e.TERM = "dumb" THEN TRUE
    ELSE FALSE

ShouldUseInteractiveTTYFirst(opt, e) ==
    IF opt.TTY THEN TRUE
    ELSE IF opt.NoTTY THEN FALSE
    ELSE ~IsHeadlessEnvironment(e)

\* UploadManagerOpts.ShouldUseInteractiveMode
ShouldUseInteractiveMode(opt, e) ==
    IF opt.NoTTY THEN FALSE
    ELSE IF opt.TTY THEN TRUE
    ELSE ~IsHeadlessEnvironment(e)

\* NewUploadManagerFromConfig: the mode is chosen once, at construction
NewUploadManagerFromConfig ==
    /\ mode.pc = "new"
    /\ LET useInteractive == ShouldUseInteractiveMode(mode.opts, mode.environ) IN
       mode' = [mode EXCEPT !.pc = "made", !.useInteractive = useInteractive,
                            !.noTTY = ~useInteractive]
    /\ UNCHANGED <<engineVars, plan, fopts, ui, reader, download>>

\* Run: the status monitor is started in interactive mode only
RunMonitorStart ==
    /\ mode.pc = "made"
    /\ mode' = [mode EXCEPT !.pc = "running", !.monitorStarted = ~mode.noTTY]
    /\ UNCHANGED <<engineVars, plan, fopts, ui, reader, download>>

InitMode ==
    /\ EngineAtRest
    /\ \E no \in BOOLEAN, yes \in BOOLEAN, in \in BOOLEAN, out \in BOOLEAN,
          ci \in CIValues, trm \in TERMValues :
          mode = [pc |-> "new",
                  opts |-> [NoTTY |-> no, TTY |-> yes],
                  environ |-> [stdinIsTerminal |-> in, stdoutIsTerminal |-> out,
                               CI |-> ci, TERM |-> trm],
                  useInteractive |-> FALSE, noTTY |-> FALSE, monitorStarted |-> FALSE]
    /\ plan = Off
    /\ fopts = Off
    /\ ui = Off
    /\ reader = Off
    /\ download = Off

NextMode ==
    \/ NewUploadManagerFromConfig
    \/ RunMonitorStart

SpecMode == InitMode /\ [][NextMode]_vars

\* ----------------------------------------- interactive monitor, manual quit
MaxErrs == 2
QuitKeys == {"KeyCtrlC", "KeyEscape", "KeyCtrlD"}
Keys == QuitKeys \cup {"KeyEnter"}
WindowWidths == {80, 120}
spinnerFramesLen == 8

UiStart ==
    [pc |-> "uploading",      \* the caller of Run: "uploading", "waitMonitor", "exited"
     monitor |-> "running",   \* the tea.Program: "running", "quitting", "stopped"
     monitorRoutine |-> "run",\* the goroutine around monitor.Run: "run", "done"
     manualQuit |-> FALSE, spinnerIdx |-> 0, windowWidth |-> 80,
     errs |-> 0,              \* len(um.errs)
     errsPrinted |-> FALSE,   \* printErrs ran
     exit |-> "none"]         \* "none", "nil" (Run returned nil), "fatal" (log.Fatalf)

UiLive == ui.pc # "off" /\ ui.exit \notin {"fatal", "nil"}

\* Update for a tea.WindowSizeMsg
UpdateWindowSize ==
    /\ UiLive
    /\ ui.monitor = "running"
    /\ \E w \in WindowWidths : ui' = [ui EXCEPT !.windowWidth = w]
    /\ UNCHANGED <<engineVars, plan, fopts, mode, reader, download>>

\* Update for a tea.KeyMsg: the three quit keys set manualQuit and return tea.Quit
UpdateKey ==
    /\ UiLive
    /\ ui.monitor = "running"
    /\ \E k \in Keys :
          IF k \in QuitKeys
          THEN ui' = [ui EXCEPT !.manualQuit = TRUE, !.monitor = "quitting"]
          ELSE ui' = ui
    /\ UNCHANGED <<engineVars, plan, fopts, mode, reader, download>>

\* Update for a TickMsg
UpdateTick ==
    /\ UiLive
    /\ ui.monitor = "running"
    /\ ui' = [ui EXCEPT !.spinnerIdx = (@ + 1) % spinnerFramesLen]
    /\ UNCHANGED <<engineVars, plan, fopts, mode, reader, download>>

\* the tea.Program ends after tea.Quit or monitor.Quit(): monitor.Run returns
\* and monitor.Wait unblocks
MonitorStops ==
    /\ UiLive
    /\ ui.monitor = "quitting"
    /\ ui' = [ui EXCEPT !.monitor = "stopped"]
    /\ UNCHANGED <<engineVars, plan, fopts, mode, reader, download>>

\* the monitor goroutine after monitor.Run returned
MonitorRoutineEnd ==
    /\ UiLive
    /\ ui.monitor = "stopped"
    /\ ui.monitorRoutine = "run"
    /\ IF ui.manualQuit
       THEN ui' = [ui EXCEPT !.monitorRoutine = "done", !.exit = "fatal"]
       ELSE ui' = [ui EXCEPT !.monitorRoutine = "done"]
    /\ UNCHANGED <<engineVars, plan, fopts, mode, reader, download>>

\* addErr while the uploads run
UiAddErr ==
    /\ UiLive
    /\ ui.pc = "uploading"
    /\ ui.errs < MaxErrs
    /\ ui' = [ui EXCEPT !.errs = @ + 1]
    /\ UNCHANGED <<engineVars, plan, fopts, mode, reader, download>>

\* uploadWg.Wait returns; stopMonitorAndWait calls monitor.Quit
UploadsDone ==
    /\ UiLive
    /\ ui.pc = "uploading"
    /\ ui' = [ui EXCEPT !.pc = "waitMonitor",
                        !.monitor = IF @ = "running" THEN "quitting" ELSE @]
    /\ UNCHANGED <<engineVars, plan, fopts, mode, reader, download>>

\* stopMonitorAndWait after monitor.Wait: printErrs, then the manualQuit test;
\* Run returns nil otherwise
StopMonitorAndWait ==
    /\ UiLive
    /\ ui.pc = "waitMonitor"
    /\ ui.monitor = "stopped"
    /\ ui' = [ui EXCEPT !.pc = "exited", !.errsPrinted = TRUE,
                        !.exit = IF ui.manualQuit THEN "fatal" ELSE "nil"]
    /\ UNCHANGED <<engineVars, plan, fopts, mode, reader, download>>

InitQuit ==
    /\ EngineAtRest
    /\ ui = UiStart
    /\ plan = Off
    /\ fopts = Off
    /\ mode = Off
    /\ reader = Off
    /\ download = Off

NextQuit ==
    \/ UpdateWindowSize
    \/ UpdateKey
    \/ UpdateTick
    \/ MonitorStops
    \/ MonitorRoutineEnd
    \/ UiAddErr
    \/ UploadsDone
    \/ StopMonitorAndWait

SpecQuit == InitQuit /\ [][NextQuit]_vars

\* --------------------------- progress reader of a single-PUT file, in bytes
MaxReadLen == 2
ReaderFileSizes == 2..4

\* one reader over one file; progressCh holds the IncUploadedMsg not yet applied
ReaderStart(sz) ==
    [pc |-> "reading",      \* "reading", "eof", "failed"
     size |-> sz, offset |-> 0,
     uploaded |-> 0,        \* fileInfo.Uploaded
     progressCh |-> <<>>,
     reported |-> 0,        \* sum of the positive increments sent
     rollbacks |-> <<>>]    \* the UploadedInc of the rollback messages sent

\* uploadProgressReader.Read when File.Read returns n bytes, or 0 and io.EOF
ReaderRead ==
    /\ reader.pc = "reading"
    /\ IF reader.offset = reader.size
       THEN reader' = [reader EXCEPT !.pc = "eof", !.progressCh = Append(@, 0)]
       ELSE \E n \in 1..Min({MaxReadLen, reader.size - reader.offset}) :
               reader' = [reader EXCEPT !.offset = @ + n,
                                        !.progressCh = Append(@, n),
                                        !.reported = @ + n]
    /\ UNCHANGED <<engineVars, plan, fopts, mode, ui, download>>

\* uploadProgressReader.Read when File.Read fails with another error: the
\* message carries minus the value fileInfo.Uploaded has at this moment
ReaderReadFails ==
    /\ reader.pc = "reading"
    /\ reader' = [reader EXCEPT !.pc = "failed",
                                !.progressCh = Append(@, 0 - reader.uploaded),
                                !.rollbacks = Append(@, 0 - reader.uploaded)]
    /\ UNCHANGED <<engineVars, plan, fopts, mode, ui, download>>

\* one iteration of the progress goroutine of Run
ProgressApply ==
    /\ reader.pc # "off"
    /\ reader.progressCh # <<>>
    /\ reader' = [reader EXCEPT !.uploaded = @ + Head(reader.progressCh),
                                !.progressCh = Tail(@)]
    /\ UNCHANGED <<engineVars, plan, fopts, mode, ui, download>>

InitReader ==
    /\ EngineAtRest
    /\ \E sz \in ReaderFileSizes : reader = ReaderStart(sz)
    /\ plan = Off
    /\ fopts = Off
    /\ mode = Off
    /\ ui = Off
    /\ download = Off

NextReader ==
    \/ ReaderRead
    \/ ReaderReadFails
    \/ ProgressApply

SpecReader == InitReader /\ [][NextReader]_vars

\* ------------------------------------------------- DownloadFileThroughUrl
MaxRetriesBound == 2
StatusOK == 200
StatusInternalServerError == 500
\* the body the server sends with a status
ResponseBody(statusCode) == IF statusCode = StatusOK THEN <<"a", "b">> ELSE <<"!">>

\* what http.Get and the read of the body can yield in one attempt:
\* a transport error, or a status with a body that is read in full or
\* breaks off after cut bytes
Responses ==
    {[getErr |-> TRUE, status |-> 0, cut |-> 0, complete |-> FALSE]}
    \cup {[getErr |-> FALSE, status |-> s, cut |-> Len(ResponseBody(s)), complete |-> TRUE] :
             s \in {StatusOK, StatusInternalServerError}}
    \cup {[getErr |-> FALSE, status |-> s, cut |-> k, complete |-> FALSE] :
             s \in {StatusOK, StatusInternalServerError}, k \in 0..1}

DownloadStart(maxRetries, old) ==
    [pc |-> "start",          \* "start", "retry", "returned"
     maxRetries |-> maxRetries,
     attempt |-> 0,
     failures |-> 0,
     exists |-> old # <<>>,   \* the destination file exists
     content |-> old,         \* its bytes
     offset |-> 0,            \* write position of fileWriter
     err |-> "",              \* the error DownloadFileThroughUrl returns
     statuses |-> {},         \* status codes the server answered with
     partial |-> FALSE,       \* a failed attempt wrote bytes
     lastBody |-> <<>>]       \* body of the attempt that ended without error

\* os.MkdirAll and os.Create: the file is created or truncated
DownloadCreate ==
    /\ download.pc = "start"
    /\ \/ download' = [download EXCEPT !.pc = "returned", !.err = "create"]
       \/ download' = [download EXCEPT !.pc = "retry", !.exists = TRUE, !.content = <<>>,
                                       !.offset = 0]
    /\ UNCHANGED <<engineVars, plan, fopts, mode, ui, reader>>

\* downloadWithFileWriter: io.Copy writes what it reads of the body at the
\* write position of the one fileWriter; the status code is not looked at
WriteBody(d, resp) ==
    LET written == SubSeq(ResponseBody(resp.status), 1, resp.cut) IN
    [d EXCEPT !.content = SubSeq(d.content, 1, d.offset) \o written,
              !.offset = @ + Len(written),
              !.statuses = @ \cup {resp.status}]

\* one call of operation by backoff.Retry, and its decision to call again:
\* at most maxRetries retries
DownloadAttempt ==
    /\ download.pc = "retry"
    /\ \E resp \in Responses :
          LET d0 == IF resp.getErr THEN download ELSE WriteBody(download, resp)
              d1 == [d0 EXCEPT !.attempt = @ + 1]
          IN IF ~resp.getErr /\ resp.complete
             THEN download' = [d1 EXCEPT !.pc = "returned",
                                         !.lastBody = ResponseBody(resp.status)]
             ELSE LET d2 == [d1 EXCEPT !.failures = @ + 1,
                                       !.partial = @ \/ (~resp.getErr /\ resp.cut > 0)]
                  IN IF download.attempt >= download.maxRetries
                     THEN download' = [d2 EXCEPT !.pc = "returned", !.err = "after retries"]
                     ELSE download' = d2
    /\ UNCHANGED <<engineVars, plan, fopts, mode, ui, reader>>

InitDownload ==
    /\ EngineAtRest
    /\ \E m \in 0..MaxRetriesBound, old \in {<<>>, <<"o", "l", "d">>} :
          download = DownloadStart(m, old)
    /\ plan = Off
    /\ fopts = Off
    /\ mode = Off
    /\ ui = Off
    /\ reader = Off

NextDownload ==
    \/ DownloadCreate
    \/ DownloadAttempt

SpecDownload == InitDownload /\ [][NextDownload]_vars

\* ------------------------------------------------ status view of the monitor
\* um.fileInfos maps a path to a *FileInfo; Nil is what the map yields for a
\* path without entry
ViewPaths == {"p", "q"}
ViewSizes == {0, 2}
Nil == [nil |-> TRUE]
FileInfoOf(st, sz, up) == [nil |-> FALSE, Status |-> st, Size |-> sz, Uploaded |-> up]

\* the status text View prints for a status (spinner frame left out); "bar"
\* stands for the progress bar
StatusText(st) ==
    CASE st = Unprocessed -> "Preparing for upload"
      [] st = CalculatingSha256 -> "Calculating sha256"
      [] st = PreviouslyUploaded -> "Previously uploaded, skipping"
      [] st = WaitingForUpload -> "Waiting for upload"
      [] st = UploadCompleted -> "Upload completed"
      [] st = MultipartCompletionInProgress -> "Completing multipart upload"
      [] st = UploadFailed -> "Upload failed"
      [] st = UploadInProgress -> "bar"

\* calculateUploadProgress, in whole percent: status.Size dereferences the
\* pointer the map yields
calculateUploadProgress(infos, name) ==
    IF infos[name].nil THEN [panicked |-> TRUE, value |-> 0]
    ELSE IF infos[name].Size = 0 THEN [panicked |-> FALSE, value |-> 100]
    ELSE [panicked |-> FALSE, value |-> (infos[name].Uploaded * 100) \div infos[name].Size]

\* one iteration of View's loop: um.fileInfos[k].RemotePath dereferences the
\* pointer the map yields
ViewLine(infos, k) ==
    IF infos[k].nil THEN [panicked |-> TRUE, path |-> k, text |-> ""]
    ELSE [panicked |-> FALSE, path |-> k, text |-> StatusText(infos[k].Status)]

\* View: the lines up to the first panic
View(list, infos) ==
    LET lines == [i \in 1..Len(list) |-> ViewLine(infos, list[i])]
        bad == {i \in 1..Len(list) : lines[i].panicked}
    IN IF bad = {} THEN [panicked |-> FALSE, lines |-> lines]
       ELSE [panicked |-> TRUE,
             lines |-> SubSeq(lines, 1, (CHOOSE i \in bad : \A j \in bad : i <= j) - 1)]

NoView == [panicked |-> FALSE, lines |-> <<>>]
NoProgress == [panicked |-> FALSE, value |-> 0]

ViewStart ==
    [pc |-> "monitor",
     fileList |-> <<>>,
     fileInfos |-> [p \in ViewPaths |-> Nil],
     viewed |-> FALSE,          \* View ran
     viewMissing |-> {},        \* paths of fileList without entry when View ran
     view |-> NoView,
     asked |-> "",              \* path calculateUploadProgress was called for
     askedMissing |-> FALSE,    \* that path had no entry
     progress |-> NoProgress]

UiViewLive == ui.pc = "monitor" /\ ~ui.view.panicked /\ ~ui.progress.panicked

\* what the last rendering and the last progress query produced is kept only
\* until the next step
Fresh(u) ==
    [u EXCEPT !.viewed = FALSE, !.viewMissing = {}, !.view = NoView,
              !.asked = "", !.askedMissing = FALSE, !.progress = NoProgress]

\* addFile, first statement: the path is appended to fileList
AddFileAppend ==
    /\ UiViewLive
    /\ \E p \in ViewPaths :
          /\ \A i \in 1..Len(ui.fileList) : ui.fileList[i] # p
          /\ \A i \in 1..Len(ui.fileList) : ~ui.fileInfos[ui.fileList[i]].nil
          /\ ui' = [Fresh(ui) EXCEPT !.fileList = Append(@, p)]
    /\ UNCHANGED <<engineVars, plan, fopts, mode, reader, download>>

\* addFile, second statement: the entry of the path appended last
AddFileInfo ==
    /\ UiViewLive
    /\ Len(ui.fileList) > 0
    /\ LET p == ui.fileList[Len(ui.fileList)] IN
       /\ ui.fileInfos[p].nil
       /\ ui' = [Fresh(ui) EXCEPT !.fileInfos[p] = FileInfoOf(Unprocessed, 0, 0)]
    /\ UNCHANGED <<engineVars, plan, fopts, mode, reader, download>>

\* the engine writes status, size and uploaded bytes of a file with an entry
SetFileInfo ==
    /\ UiViewLive
    /\ \E p \in ViewPaths, st \in UploadStatusEnum, sz \in ViewSizes :
       \E up \in {0, sz \div 2, sz} :
          /\ ~ui.fileInfos[p].nil
          /\ ui' = [Fresh(ui) EXCEPT !.fileInfos[p] = FileInfoOf(st, sz, up)]
    /\ UNCHANGED <<engineVars, plan, fopts, mode, reader, download>>

\* the monitor goroutine renders the view
ViewRender ==
    /\ UiViewLive
    /\ ui' = [Fresh(ui) EXCEPT
                 !.viewed = TRUE,
                 !.viewMissing = {ui.fileList[i] : i \in
                                     {j \in 1..Len(ui.fileList) :
                                         ui.fileInfos[ui.fileList[j]].nil}},
                 !.view = View(ui.fileList, ui.fileInfos)]
    /\ UNCHANGED <<engineVars, plan, fopts, mode, reader, download>>

\* a call of calculateUploadProgress for any path
ProgressQuery ==
    /\ UiViewLive
    /\ \E name \in ViewPaths :
          ui' = [Fresh(ui) EXCEPT
                    !.asked = name,
                    !.askedMissing = ui.fileInfos[name].nil,
                    !.progress = calculateUploadProgress(ui.fileInfos, name)]
    /\ UNCHANGED <<engineVars, plan, fopts, mode, reader, download>>

InitView ==
    /\ EngineAtRest
    /\ ui = ViewStart
    /\ plan = Off
    /\ fopts = Off
    /\ mode = Off
    /\ reader = Off
    /\ download = Off

NextView ==
    \/ AddFileAppend
    \/ AddFileInfo
    \/ SetFileInfo
    \/ ViewRender
    \/ ProgressQuery

SpecView == InitView /\ [][NextView]_vars

TypeOK ==
    /\ run \in 1..MaxRuns
    /\ status \in [Files -> UploadStatusEnum]
    /\ pcMain \in {"start", "digest", "additional", "wait", "returned", "panicked"}
    /\ pcProd \in {"idle", "next", "send0", "send", "mark", "closed"}
    /\ pcSched \in {"idle", "loop", "check", "recv", "completing"}
    /\ Len(previous) <= 1

\* ------------------------------------------------------------- properties
Terminal == {PreviouslyUploaded, UploadCompleted, UploadFailed}

\* C1: when Run returns, every file of the run (discovered or additional) has
\* one of the statuses PreviouslyUploaded, UploadCompleted, UploadFailed
C1_AllTerminalWhenRunReturns ==
    pcMain = "returned" => \A f \in Range(fileList) : status[f] \in Terminal

Failed == {f \in Range(fileList) : status[f] = UploadFailed}

\* C2: Run reports an error whenever a file ended in UploadFailed or the
\* context was cancelled, and reports none only when neither happened
C2_ExitNonZeroOnFailureOrCancel ==
    pcMain = "returned" => (runResult = "nil" <=> (Failed = {} /\ ~cancelled))

PartsOf(ds, f) == {d.part : d \in {x \in ds : x.path = f}}

\* the producer is done with f: f lies before its current file, or the channel is closed
ProducerPast(f) ==
    \/ pcProd = "closed"
    \/ \E k \in 1..Len(fileList) : fileList[k] = f /\ k < prodIdx

Quiescent ==
    \/ pcMain = "returned"
    \/ /\ Running
       /\ wg # 0
       /\ pcProd = "closed"
       /\ pcSched = "recv"
       /\ atWorker = {}
       /\ results = {}

Ascending(n) == [k \in 1..n |-> k]

CompletedWithAllParts(f) ==
    /\ f \in hist.everCompleted
    /\ store[f] = NoCheckpoint
    /\ \E call \in hist.completeCalls :
          call.path = f /\ call.parts = Ascending(TotalPartsCount(f))

\* C4: in a restarted run in which every call succeeds, a multipart file that
\* the earlier run left unfinished has reached UploadCompleted through a
\* CompleteMultipartUpload with parts 1..N, its checkpoint deleted, by the
\* time the run comes to rest
C4_RestartCompletesFile ==
    \A f \in Range(fileList) :
        ( /\ run > 1
          /\ Quiescent
          /\ hist.failedCalls = {}
          /\ ~cancelled
          /\ f \notin corrupt
          /\ fsize[f] > partSize
          /\ f \notin hist.dedupHit )
        => CompletedWithAllParts(f)

CeilDiv(a, b) == (a + b - 1) \div b

\* C5: every in-flight part p of a file satisfies
\* p <= min_inflight_part + ceil(W / part_size), W = max(1 GiB, part_size)
C5_SlidingWindow ==
    \A d \in inProgress :
        d.part > 0 =>
            d.part <= Min(PartsOf(inProgress, d.path))
                      + CeilDiv(windowSize, partSize)

C5_Witness ==
    /\ previous # <<>>
    /\ \E d \in inProgress :
          /\ d.path = previous[1].path
          /\ previous[1].part > d.part + windowSize \div partSize
    /\ Cardinality(inProgress) < threads

\* C6: once the scheduler has recorded a failed result for a file, no
\* descriptor of that file is sent to a worker
C6_NoDispatchAfterFailure == hist.lateDispatch = {}

\* C7: when a PUT of file a fails and every call of another uploaded file b
\* succeeds, b has reached UploadCompleted when the run comes to rest and the
\* error map holds a's path only
C7_FailureIsolation ==
    \A a \in Range(fileList), b \in Range(fileList) :
        ( /\ a # b
          /\ Quiescent
          /\ ~cancelled
          /\ a \in hist.putFailed
          /\ b \in urls
          /\ b \notin corrupt
          /\ b \notin hist.failedCalls )
        => /\ b \in hist.everCompleted
           /\ {f \in Files : errs[f] # ""} = {a}

\* C8: every CompleteMultipartUpload call carries the parts 1..total_parts in
\* ascending order, each once
C8_CompleteWithAllPartsSorted ==
    \A call \in hist.completeCalls : call.parts = Ascending(call.total)

C8_Witness ==
    \E call \in hist.completeCalls :
        /\ call.path \in hist.resumed
        /\ call.total >= 3

\* C9: after CompleteMultipartUpload failed for a file, the file is
\* UploadFailed with the error recorded and its checkpoint is still stored
C9_CheckpointKeptOnCompleteFailure ==
    \A f \in hist.completeFailed :
        /\ status[f] = UploadFailed
        /\ errs[f] = "complete"
        /\ store[f].uid # 0
        /\ Len(store[f].parts) = TotalPartsCount(f)

\* C10: a file GetFile matched is PreviouslyUploaded, released its wait-group
\* slot once, and no URL, descriptor, NewMultipartUpload or PUT exists for it;
\* a run in which every file matched ends with all of them PreviouslyUploaded
C10_Dedup ==
    /\ \A f \in hist.dedupHit :
          /\ status[f] = PreviouslyUploaded
          /\ hist.doneCnt[f] = 1
          /\ f \notin hist.urlRequested
          /\ f \notin urls
          /\ f \notin hist.newMultipart
          /\ PartsOf(hist.emitted, f) = {}
          /\ PartsOf(hist.putCalls, f) = {}
    /\ \A f \in Range(fileList) : status[f] = PreviouslyUploaded => f \in hist.dedupHit
    /\ (pcMain = "returned" /\ Range(fileList) \subseteq hist.dedupHit) => hist.putCalls = {}

C10_Witness ==
    /\ run = 2
    /\ pcMain = "returned"
    /\ Range(fileList) = Files
    /\ \A f \in Files : status[f] = PreviouslyUploaded

\* C11: once the caller's context is cancelled, the scheduler sends no
\* descriptor to a worker
C11_NoDispatchAfterCancel ==
    [][cancelled => hist.dispatched' \subseteq hist.dispatched]_vars

\* C12: after cancellation a successful part result the scheduler receives is
\* appended to the file's checkpoint, and CompleteMultipartUpload is not invoked
C12_PersistButNoCompleteAfterCancel ==
    [][(cancelled /\ run' = run) =>
          /\ hist.completeCalls' \subseteq hist.completeCalls
          /\ \A r \in results \ results' :
                (~r.err /\ r.info.uid # 0 /\ r.info.path \notin corrupt)
                => r.info.part \in Range(store'[r.info.path].parts)]_vars

\* C13: when ListObjectParts does not confirm the stored upload-id U, the
\* checkpoint is reset, NewMultipartUpload is called, every emitted descriptor
\* carries the new id, all parts 1..N are emitted and the uploaded counter is 0
C13_StaleUploadIdStartsOver ==
    \A f \in DOMAIN hist.staleUid :
        hist.staleUid[f] # 0 =>
            /\ f \in hist.newMultipart
            /\ uploaded[f] = 0
            /\ store[f].uid # hist.staleUid[f]
            /\ Range(store[f].parts) \subseteq PartsOf(hist.putCalls, f)
            /\ \A d \in hist.emitted :
                  d.path = f => d.uid # 0 /\ d.uid # hist.staleUid[f]
            /\ (ProducerPast(f) /\ errs[f] # "plan")
               => PartsOf(hist.emitted, f) = 1..TotalPartsCount(f)

C13_Witness ==
    \E f \in DOMAIN hist.staleUid :
        /\ hist.staleUid[f] # 0
        /\ ProducerPast(f)
        /\ TotalPartsCount(f) >= 2
        /\ PartsOf(hist.emitted, f) = 1..TotalPartsCount(f)

\* C14: a run that finds an undecodable checkpoint for a file resets it, and no
\* later checkpoint update of the file fails; with every call succeeding the
\* file is completed with parts 1..N
C14_CorruptCheckpointRecovered ==
    \A f \in corrupt :
        /\ (f \in hist.newMultipart /\ ProducerPast(f)) => f \notin hist.updateFailed
        /\ ( /\ Quiescent
             /\ hist.failedCalls = {}
             /\ ~cancelled
             /\ f \in hist.newMultipart )
           => CompletedWithAllParts(f)

RECURSIVE SumPartSizes(_, _)
\* bytes of the parts q of file f, by the file's real size
SumPartSizes(f, q) ==
    IF q = <<>> THEN 0
    ELSE LET n == CeilDiv(size[f], partSize)
             p == Head(q)
         IN  (IF p = n THEN size[f] - (n - 1) * partSize ELSE partSize)
             + SumPartSizes(f, Tail(q))

\* C15: in every state, across runs, a stored checkpoint lists each part
\* number at most once, no more parts than the file has, its uploaded size is
\* the sum of the listed parts' sizes, and it has an upload-id when it lists a part
C15_CheckpointInvariants ==
    \A f \in DOMAIN store :
        LET ck == store[f] IN
        /\ Cardinality(Range(ck.parts)) = Len(ck.parts)
        /\ Len(ck.parts) <= CeilDiv(size[f], partSize)
        /\ Range(ck.parts) \subseteq 1..CeilDiv(size[f], partSize)
        /\ ck.usize = SumPartSizes(f, ck.parts)
        /\ ck.parts # <<>> => ck.uid # 0

C15_Witness ==
    \E f \in hist.resumed :
        /\ hist.resumedParts[f] # {}
        /\ Len(store[f].parts) > Cardinality(hist.resumedParts[f])
        /\ store[f].usize = size[f]

\* C16: when the producer obtained a new upload-id for a file, the store holds
\* that id with an empty parts list before the first descriptor is emitted
C16_UploadIdStoredBeforeFirstPart ==
    \A f \in hist.newMultipart :
        (pcProd = "send0" /\ fileList[prodIdx] = f)
        => store[f] = [uid |-> prodPending[1].uid, parts |-> <<>>, usize |-> 0]

\* C17: every GenerateFileUploadUrls call carries at most 20 files
C17_BatchAtMostTwenty ==
    \A call \in hist.generateCalls : Len(call.files) <= processBatchSize

\* C18: the files of a failed GenerateFileUploadUrls call, and only they, are
\* UploadFailed with the batch error, each with one release of its wait-group
\* slot, and no file is requested in two calls
C18_BatchFailureIsolated ==
    /\ pcMain # "panicked"
    /\ \A call \in hist.generateCalls :
          call.err => \A f \in Range(call.files) :
                         /\ status[f] = UploadFailed
                         /\ errs[f] = "generate"
                         /\ hist.doneCnt[f] = 1
    /\ \A f \in DOMAIN errs :
          errs[f] = "generate" =>
              \E call \in hist.generateCalls : call.err /\ f \in Range(call.files)
    /\ \A c1 \in hist.generateCalls, c2 \in hist.generateCalls :
          c1 # c2 => Range(c1.files) \cap Range(c2.files) = {}

\* C19: a file whose GetFile probe failed is UploadFailed with an error
\* recorded and is not sent in a GenerateFileUploadUrls call
C19_ProbeErrorFailsFile ==
    \A f \in hist.probeFailed :
        /\ status[f] = UploadFailed
        /\ errs[f] # ""
        /\ f \notin Range(files)
        /\ f \notin hist.urlRequested

\* C20: a file whose GetFile probe failed is queued like a file the server does
\* not hold: WaitingForUpload with no error until a URL call carries it, with
\* errors only from later failing calls, and uploaded once it has a URL
C20_ProbeErrorTreatedAsAbsent ==
    \A f \in hist.probeFailed :
        /\ f \in Range(files) \cup hist.urlRequested
        /\ pcMain \notin {"start", "digest"} => f \in hist.urlRequested
        /\ f \notin hist.urlRequested => status[f] = WaitingForUpload /\ errs[f] = ""
        /\ errs[f] # "" => f \in hist.failedCalls \cup hist.updateFailed
        /\ (ProducerPast(f) /\ f \in urls /\ f \notin hist.failedCalls /\ f \notin hist.resumed)
           => PartsOf(hist.emitted, f) # {}

C20_Witness ==
    \E f \in hist.probeFailed :
        /\ f \in hist.everCompleted
        /\ PartsOf(hist.putCalls, f) # {}

\* C21: a planned file of at most the part size has exactly one single-PUT
\* descriptor (size 0 and size = part size included); a larger file has parts
\* 1..N, N the least number with N * part size >= size, part p at offset
\* (p-1) * part size, every part but the last of the part size, the parts
\* adjoining each other from 0 up to the size; one byte over the part size
\* gives the lengths part size and 1
C21_PartPlanning ==
    plan.pc = "done" =>
        LET ps == plan.partSize
            n == Len(plan.infos)
            end(p) == BytesPlus(plan.infos[p].ReadOffset, Bytes(0, plan.infos[p].ReadSize))
        IN IF BytesLE(plan.size, Bytes(0, ps))
           THEN n = 1 /\ plan.infos[1].PartId = 0
           ELSE /\ n >= 2
                /\ BytesLE(plan.size, PartsBytes(n, ps))
                /\ ~BytesLE(plan.size, PartsBytes(n - 1, ps))
                /\ \A p \in 1..n :
                      /\ plan.infos[p].PartId = p
                      /\ plan.infos[p].ReadOffset = PartsBytes(p - 1, ps)
                      /\ p < n => plan.infos[p].ReadSize = ps
                      /\ plan.infos[p].ReadSize >= 1
                      /\ p < n => end(p) = plan.infos[p + 1].ReadOffset
                /\ plan.infos[1].ReadOffset = Bytes(0, 0)
                /\ end(n) = plan.size
                /\ plan.size = Bytes(0, ps + 1) =>
                      <<plan.infos[1].ReadSize, plan.infos[2].ReadSize>> = <<ps, 1>>

C21_Witness ==
    /\ plan.pc = "done"
    /\ plan.size = Bytes(0, plan.partSize + 1)
    /\ Len(plan.infos) = 2

\* C22: a file of exactly 500 GiB passes the size cap; a file of more than
\* 500 GiB (500 GiB + 1 byte included) fails with the too-large error and
\* status UploadFailed, and for it no checkpoint store is created, no
\* NewMultipartUpload is called and no descriptor is made
C22_SizeCap ==
    /\ BytesLE(plan.size, maxSinglePutObjectBytes) => plan.err # "toolarge"
    /\ (plan.size = maxSinglePutObjectBytes /\ plan.pc = "done") =>
           Len(plan.infos) = 500 * (GiB \div plan.partSize)
    /\ ~BytesLE(plan.size, maxSinglePutObjectBytes) =>
           /\ plan.pc \in {"start", "multipart", "failed"}
           /\ plan.pc = "failed" => (plan.err = "toolarge" /\ plan.status = UploadFailed)
           /\ ~plan.dbCreated
           /\ plan.newMultipartCalls = 0
           /\ plan.infos = <<>>

C22_Witness ==
    /\ plan.pc = "failed"
    /\ plan.size = Bytes(500, 1)
    /\ plan.err = "toolarge"
    /\ plan.status = UploadFailed

\* the text of a glob pattern before its first wildcard
BeforeWildcard(pattern) == SubSeq(pattern, 1, IndexAny(pattern, {"*", "?", "["}))

\* the directory prefix of a text: what precedes its last separator
DirectoryPrefix(s) ==
    LET seps == {i \in 1..Len(s) : s[i] = Separator} IN
    IF seps = {} THEN Dot
    ELSE LET last == CHOOSE i \in seps : \A j \in seps : j <= i IN
         IF last = 1 THEN <<Separator>> ELSE SubSeq(s, 1, last - 1)

NoDoubleSeparator(s) == \A i \in 1..(Len(s) - 1) : ~(s[i] = Separator /\ s[i + 1] = Separator)

\* C23: for a valid glob path the relative base directory is the directory
\* prefix before the first wildcard: "a/*" and "a/**/*" give "a", "a/a/a*"
\* gives "a/a"; the file "a/f" matched by "a/*" gets the remote path "f",
\* without the directory name
C23_GlobBaseIsDirectoryPrefix ==
    (fopts.pc \in {"valid", "named"} /\ hasGlobPattern(fopts.Path)
                                     /\ NoDoubleSeparator(fopts.Path)) =>
        /\ fopts.relDir = DirectoryPrefix(BeforeWildcard(fopts.Path))
        /\ fopts.Path = <<"a", "/", "*">> => fopts.relDir = <<"a">>
        /\ fopts.Path = <<"a", "/", "*", "*", "/", "*">> => fopts.relDir = <<"a">>
        /\ fopts.Path = <<"a", "/", "a", "/", "a", "*">> => fopts.relDir = <<"a", "/", "a">>
        /\ (fopts.pc = "named" /\ fopts.Path = <<"a", "/", "*">>) => fopts.remotePath = <<"f">>

InvalidInput ==
    \/ fopts.Path = <<>> /\ ~fopts.AdditionalUploads
    \/ fopts.Path # <<>> /\ hasGlobPattern(fopts.Path) /\ ~fopts.found
    \/ fopts.Path # <<>> /\ ~hasGlobPattern(fopts.Path) /\ ~fopts.found

\* C24: with an empty path and no additional uploads, a glob without match
\* or a missing non-glob path, Run returns an error, and then no file entry
\* exists, no goroutine was started and no GetFile, GenerateFileUploadUrls
\* or PUT call was made
C24_InvalidInputAbortsBeforeWork ==
    /\ InvalidInput => fopts.pc \in {"called", "invalid"}
    /\ fopts.pc = "invalid" =>
          /\ pcMain = "returned"
          /\ runResult = "error"
          /\ fileList = <<>>
          /\ wg = 0
          /\ pcProd = "idle"
          /\ pcSched = "idle"
          /\ atWorker = {}
          /\ hist = HistInit

C24_Witness ==
    /\ fopts.pc = "invalid"
    /\ hasGlobPattern(fopts.Path)
    /\ fopts.err = "glob pattern matched no files"
    /\ pcMain = "returned"

\* C25: ShouldUseInteractiveMode is false whenever NoTTY is set, also with
\* TTY set; true when TTY is set and NoTTY is not; otherwise true exactly
\* when stdin and stdout are terminals, CI is not "true" and TERM is not "dumb"
C25_InteractiveModeSelection ==
    mode.pc # "new" =>
        /\ mode.opts.NoTTY => ~mode.useInteractive
        /\ (mode.opts.TTY /\ ~mode.opts.NoTTY) => mode.useInteractive
        /\ (~mode.opts.TTY /\ ~mode.opts.NoTTY) =>
              (mode.useInteractive <=>
                  /\ mode.environ.stdinIsTerminal
                  /\ mode.environ.stdoutIsTerminal
                  /\ mode.environ.CI # "true"
                  /\ mode.environ.TERM # "dumb")

C25_Witness ==
    /\ mode.pc = "made"
    /\ mode.opts.NoTTY
    /\ mode.opts.TTY
    /\ mode.environ.stdinIsTerminal
    /\ mode.environ.stdoutIsTerminal
    /\ ~mode.useInteractive

\* the edges of the status machine; completion may also end in UploadFailed
StatusEdges ==
    {<<Unprocessed, CalculatingSha256>>,
     <<CalculatingSha256, PreviouslyUploaded>>,
     <<CalculatingSha256, WaitingForUpload>>,
     <<PreviouslyUploaded, UploadInProgress>>,
     <<WaitingForUpload, UploadInProgress>>,
     <<UploadInProgress, UploadCompleted>>,
     <<UploadInProgress, MultipartCompletionInProgress>>,
     <<UploadInProgress, UploadFailed>>,
     <<MultipartCompletionInProgress, UploadCompleted>>,
     <<MultipartCompletionInProgress, UploadFailed>>}

\* C26: within a run every change of a file's status follows an edge of the
\* status machine (the digest of a file sets CalculatingSha256 and the status
\* after it in one step, which is two edges); no other change occurs
C26_StatusFollowsStateMachine ==
    [][run' = run =>
         \A f \in DOMAIN status :
            status'[f] # status[f] =>
               \/ <<status[f], status'[f]>> \in StatusEdges
               \/ /\ status[f] = Unprocessed
                  /\ <<CalculatingSha256, status'[f]>> \in StatusEdges]_vars

\* C27: a Ctrl-C, Esc or Ctrl-D key sets the manual-quit flag and stops the
\* UI, and after a manual quit the engine ends with a non-zero condition
\* only once the collected per-file errors have been printed
C27_ManualQuitPrintsErrorsFirst ==
    ui.manualQuit =>
        /\ ui.monitor # "running"
        /\ ui.exit # "nil"
        /\ (ui.exit = "fatal" /\ ui.errs > 0) => ui.errsPrinted

\* C28: after a failed read of a single-PUT file the reader has sent exactly
\* one rollback message, its delta is minus the bytes reported so far, and
\* once every progress message of the file is applied the uploaded counter
\* is 0, whatever the interleaving of reader and progress goroutine
C28_SinglePutRollbackToZero ==
    reader.pc = "failed" =>
        /\ Len(reader.rollbacks) = 1
        /\ reader.rollbacks[1] = 0 - reader.reported
        /\ reader.progressCh = <<>> => reader.uploaded = 0

\* C29: when DownloadFileThroughUrl returns without error after attempts
\* that all got status 200, some of which failed after writing part of the
\* body, the destination file holds exactly the bytes of the successful
\* attempt, and the attempts are the failures plus one, at most maxRetries + 1
C29_RetryKeepsOnlySuccessfulBytes ==
    (download.pc = "returned" /\ download.err = "" /\ download.statuses \subseteq {StatusOK}) =>
        /\ download.content = download.lastBody
        /\ download.attempt = download.failures + 1
        /\ download.attempt <= download.maxRetries + 1

\* C30: when every answer of the server had a non-2xx status,
\* DownloadFileThroughUrl returns an error, and the destination file exists
\* and is empty
C30_NonSuccessStatusLeavesEmptyFile ==
    (download.pc = "returned" /\ download.statuses # {}
                              /\ StatusOK \notin download.statuses) =>
        /\ download.err # ""
        /\ download.exists
        /\ download.content = <<>>

\* C31: View does not panic when fileList holds a path without entry in
\* fileInfos, and prints the status text "Waiting for upload" for that path
C31_ViewToleratesMissingFileInfo ==
    (ui.viewed /\ ui.viewMissing # {}) =>
        /\ ~ui.view.panicked
        /\ \A p \in ui.viewMissing :
              \E i \in 1..Len(ui.view.lines) :
                 ui.view.lines[i].path = p /\ ui.view.lines[i].text = "Waiting for upload"

\* C32: calculateUploadProgress returns 0, without panic, for a path without
\* entry in fileInfos
C32_ProgressOfMissingEntryIsZero ==
    (ui.asked # "" /\ ui.askedMissing) => (~ui.progress.panicked /\ ui.progress.value = 0)

\* files whose os.Open in produceUploadInfos / produceMultipartUploadInfos
\* succeeded in this run: those with a descriptor planned or sent, and the
\* resumed files whose checkpoint lists every part
OpenedFiles ==
    {d.path : d \in hist.emitted \cup Range(prodPending)}
        \cup {f \in hist.resumed : (1..TotalPartsCount(f)) \subseteq hist.resumedParts[f]}

\* FileReader.Close calls made for f: the deferred one of
\* consumeSingleUploadInfo and the deferred one of handleUploadResult's
\* completion branch
Closes(f) ==
    (IF SingleInfo(f) \in hist.putCalls THEN 1 ELSE 0)
        + Cardinality({call \in hist.completeCalls : call.path = f})

\* C33: when Run has returned, every read handle the producer opened has been
\* closed exactly once
C33_HandleClosedExactlyOnce ==
    pcMain = "returned" => \A f \in OpenedFiles : Closes(f) = 1

\* C34: a run that is never killed returns: from its start the last run of a
\* behaviour leads to the return of Run, whatever the calls answer
C34_RunEventuallyReturns ==
    (run = MaxRuns /\ pcMain = "start") ~> (pcMain = "returned")

\* C35: uploadWg.Done is called at most once for each file, the counter is
\* never negative, and Run does not return while a file of the list is not
\* in a terminal status
C35_WaitGroupDoneAtMostOncePerFile ==
    /\ \A f \in DOMAIN hist.doneCnt : hist.doneCnt[f] <= 1
    /\ wg >= 0
    /\ pcMain # "panicked"
    /\ pcMain = "returned" => \A f \in Range(fileList) : status[f] \in Terminal

\* C36: within a run, a file whose status is UploadFailed or UploadCompleted
\* keeps that status in every later state
C36_TerminalStatusIsAbsorbing ==
    [][run' = run =>
          \A f \in DOMAIN status :
              status[f] \in {UploadFailed, UploadCompleted} => status'[f] = status[f]]_vars

\* the producer's next statement sequence can call addErr for f: f is the
\* file it is about to plan, and os.Open or the multipart planning may fail
ProducerBeforeAddErr(f) ==
    /\ Running
    /\ pcProd = "next"
    /\ prodIdx <= Len(fileList)
    /\ f = fileList[prodIdx]
    /\ f \in urls

\* the scheduler's next statement sequence can call addErr for g: a failed
\* result of g waits on uploadResultCh, or CompleteMultipartUpload for g is
\* about to be called
SchedulerBeforeAddErr(g) ==
    /\ Running
    /\ \/ /\ pcSched = "recv"
          /\ \E r \in results : r.info.path = g /\ r.err /\ status[g] # UploadFailed
       \/ /\ pcSched = "completing"
          /\ schedCur[1].path = g

\* C37: in no reachable state are the producer and the scheduler both about
\* to execute addErr, for two different files, with nothing ordering the two
\* calls
C37_NoConcurrentAddErr ==
    \A f, g \in Range(fileList) :
        f # g => ~(ProducerBeforeAddErr(f) /\ SchedulerBeforeAddErr(g))

\* workers that hold a descriptor: uploading, or blocked in the send of the result
BusyWorkers == Cardinality(atWorker) + Cardinality(results)

\* C38: the scheduler never holds more than Threads descriptors as in flight,
\* it sends a descriptor to uploadCh only when a worker is idle, and the
\* descriptor of a received result, failed or not, is no longer in flight
C38_SlotBound ==
    /\ [](Cardinality(inProgress) <= threads)
    /\ [][run' = run =>
            /\ atWorker' \ atWorker # {} => BusyWorkers < threads
            /\ \A r \in results \ results' : r.info \notin inProgress']_vars

C38_Witness ==
    /\ threads = MaxThreads
    /\ Cardinality(inProgress) = threads
    /\ \E d \in hist.putCalls : d.path \in hist.schedFailed /\ d \notin inProgress
    /\ \E d \in hist.putCalls : d.path \notin hist.putFailed /\ d \notin inProgress

\* the descriptors the scheduler has taken from the producer and neither
\* dispatched nor discarded: the one just received and the one in the
\* lookahead buffer
HeldBack == Range(schedCur) \cup Range(previous)

\* C39: no descriptor the producer emitted is lost: it is dispatched, held by
\* the scheduler, or its file has failed; the parts of a file are dispatched
\* in strictly ascending part number, none overtaking an earlier one of a file
\* that has not failed; while the lookahead buffer is occupied no further
\* descriptor is taken from the producer, the buffer is emptied only by a
\* dispatch or because the file has failed, and while Run waits an occupied
\* buffer is eventually emptied
C39_DispatchInEmissionOrder ==
    /\ [](\A e \in hist.emitted :
             e \in hist.dispatched \/ e \in HeldBack \/ errs[e.path] # "")
    /\ [][run' = run =>
            /\ \A d \in hist'.dispatched \ hist.dispatched :
                  /\ \A p \in PartsOf(hist.dispatched, d.path) : p < d.part
                  /\ \A e \in hist.emitted \ hist.dispatched :
                        (e.path = d.path /\ e.part < d.part) => errs[e.path] # ""
            /\ previous # <<>> => hist'.emitted = hist.emitted
            /\ (previous # <<>> /\ previous' = <<>>) =>
                  \/ previous[1] \in hist'.dispatched
                  \/ status[previous[1].path] = UploadFailed]_vars
    /\ (previous # <<>>) ~> (previous = <<>> \/ pcMain # "wait")

C39_Witness ==
    /\ previous # <<>>
    /\ pcSched = "recv"
    /\ status[previous[1].path] # UploadFailed
    /\ Cardinality(PartsOf(hist.dispatched, previous[1].path)) >= 2

\* C40: once addErr has recorded a failure of file f in a run, the stored
\* checkpoint of f does not change in that run and no CompleteMultipartUpload
\* call is made for f
C40_NoCheckpointWriteAfterFailure ==
    [][run' = run =>
          \A f \in DOMAIN errs :
              errs[f] # "" =>
                  /\ store'[f] = store[f]
                  /\ \A call \in hist'.completeCalls \ hist.completeCalls : call.path # f]_vars

====
